---- MODULE Spec2Model ----
(***************************************************************************)
(* Verification model of the Mandelbrot fractal explorer: the escape-time  *)
(* evaluator, the coordinate mapper, the colour mappers, the tile worker   *)
(* with its scheduler, and the view-state controller with the bookmark     *)
(* animation.                                                              *)
(*                                                                         *)
(* JavaScript numbers are modelled as exact rationals <<n, d>> in lowest   *)
(* terms with d > 0.  All inputs are drawn from dyadic or small-denominator*)
(* grids, on which the real-arithmetic value is the value the claims are   *)
(* about.                                                                  *)
(***************************************************************************)
EXTENDS Integers, Sequences, FiniteSets, TLC

VARIABLES
    evalIn,        \* the arguments mandelbrot is called with
    evalOut,       \* a pair <<copy, result>> for each copy that has run
    colIn,         \* the iteration count and cap a pixel is shaded for
    colOut,        \* a pair <<path, colour>> for each render path that has run
    wkIn,          \* the message a worker run on its own receives
    wkOut,         \* pairs <<"tile", posted>>, <<"full", posted>> of the runs done
    canvas,        \* width, height, workerCount, maxIterations of the frames
    generation,    \* number of the frame requested last (0: none yet)
    frameView,     \* the view state of that frame
    dispatched,    \* log of the compute messages sent, in sending order
    inbox,         \* compute messages posted to workers, not yet handled
    outbox,        \* messages and error events of workers, not yet received
    failed,        \* the workers whose handler threw
    received,      \* the results received for the current frame, in arrival order
    pending,       \* the workers of the current frame that have not reported
    frameBuffer,   \* the merged RGBA frame
    frameGen,      \* the frame the buffer was merged for (0: none)
    frameSources,  \* the workers whose results the buffer was merged from
    discarded,     \* the workers whose results were dropped as stale
    dimensions,    \* the window size the component has rendered with
    viewState,     \* zoom, centerX, centerY of the last render
    isAnimating,   \* isAnimating of the last render
    pendingView,   \* setViewState calls queued since the last render
    pendingAnimating, \* setIsAnimating calls queued since the last render
    loops,         \* the animations whose animate callback is scheduled
    clock,         \* animation frames elapsed
    zooms,         \* number of wheel events handled
    calls,         \* number of animateToBookmark calls
    lastCall,      \* the bookmark and the outcome of the last such call
    wheelLog,      \* the wheel updaters processed, with the states before and after
    partIn,        \* the height and workerCount a frame is partitioned for
    partOut,       \* the tiles of the partition, once computed
    mapIn,         \* the view, window size and relative position a point is mapped for
    mapOut,         \* a pair <<path, point>> for each render path that has mapped it
    is3D,          \* whether the 3D view is shown
    navigatorGpu,  \* whether the browser has navigator.gpu
    webgpuRenderer, \* 0 for null, else the initWebGPU call whose renderer is held
    supportsWebGPU, \* "null", "true" or "false"
    inits,         \* the stage or the outcome of each initWebGPU call
    frames,        \* the calls of renderFractal, with what each saw and drew
    uiEvents,       \* number of resizes and mode switches handled
    mounted,       \* whether the effects of the first render have run
    isDragging,    \* a 2D pan is in progress
    isSelecting,   \* a rectangle selection is in progress
    isRotating,    \* a 3D camera rotation is in progress
    lastMousePos,  \* the position the pan deltas are measured from
    selectionRect, \* <<>> for null, else <<the rectangle>>
    bookmarks,     \* the bookmark collection, in display order
    storage,       \* the item 'fractal-bookmarks' of localStorage
    saveDue,       \* the bookmarks changed and the save effect has not run yet
    lastEvent,     \* the handler that ran last, with its arguments
    mouseEvents,   \* number of mouse events and delete clicks handled
    floatZoom,     \* the zoom of the view state as the number the machine holds
    floatBookmarks,
                   \* the zooms of the bookmarks, as the numbers the machine holds
    floatLoop      \* <<>>, or <<the start zoom, the end zoom and the frame of the
                   \* animation>>

evalVars == <<evalIn, evalOut>>

colVars == <<colIn, colOut>>

wkVars == <<wkIn, wkOut>>

tileVars == <<canvas, generation, frameView, dispatched, inbox, outbox, failed,
              received, pending, frameBuffer, frameGen, frameSources,
              discarded>>

viewVars == <<dimensions, viewState, isAnimating, pendingView, pendingAnimating,
              loops, clock, zooms, calls, lastCall, wheelLog>>

partVars == <<partIn, partOut>>

mapVars == <<mapIn, mapOut>>

gpuVars == <<is3D, navigatorGpu, webgpuRenderer, supportsWebGPU, inits, frames, uiEvents>>

bookVars == <<mounted, isDragging, isSelecting, isRotating, lastMousePos, selectionRect, bookmarks, storage, saveDue, lastEvent, mouseEvents>>

floatVars == <<floatZoom, floatBookmarks, floatLoop>>

vars == <<evalVars, colVars, wkVars, tileVars, viewVars, partVars, mapVars, gpuVars, bookVars, floatVars>>

\* what the steps of each specification leave alone
notEval == <<colVars, wkVars, tileVars, viewVars, partVars, mapVars, gpuVars, bookVars, floatVars>>

notCol == <<evalVars, wkVars, tileVars, viewVars, partVars, mapVars, gpuVars, bookVars, floatVars>>

notWk == <<evalVars, colVars, tileVars, viewVars, partVars, mapVars, gpuVars, bookVars, floatVars>>

notTile == <<evalVars, colVars, wkVars, viewVars, partVars, mapVars, gpuVars, bookVars, floatVars>>

notView == <<evalVars, colVars, wkVars, tileVars, partVars, mapVars, gpuVars, bookVars, floatVars>>

notPart == <<evalVars, colVars, wkVars, tileVars, viewVars, mapVars, gpuVars, bookVars, floatVars>>

notMap == <<evalVars, colVars, wkVars, tileVars, viewVars, partVars, gpuVars, bookVars, floatVars>>

\* the view state but the window size
viewRest == <<viewState, isAnimating, pendingView, pendingAnimating, loops,
              clock, zooms, calls, lastCall, wheelLog>>

notGpu == <<evalVars, colVars, wkVars, tileVars, viewVars, partVars, mapVars, bookVars, floatVars>>

notRender == <<evalVars, colVars, wkVars, tileVars, viewRest, partVars, mapVars, bookVars, floatVars>>

\* the view state but the queue of setViewState calls
viewButQueue == <<dimensions, viewState, isAnimating, pendingAnimating, loops,
                  clock, zooms, calls, lastCall, wheelLog>>

notGesture == <<evalVars, colVars, wkVars, tileVars, partVars, mapVars, gpuVars, floatVars>>

notBook == <<evalVars, colVars, wkVars, tileVars, viewVars, partVars, mapVars, gpuVars, floatVars>>

notFloat == <<evalVars, colVars, wkVars, tileVars, viewVars, partVars, mapVars, gpuVars, bookVars>>

-----------------------------------------------------------------------------
(* Number arithmetic: + - * / < <= Math.floor Math.round Math.abs Math.min % *)

Abs(n) == IF n < 0 THEN -n ELSE n

\* the elements of a sequence
Range(f) == {f[i] : i \in DOMAIN f}

RECURSIVE GCD(_, _)
GCD(a, b) == IF b = 0 THEN a ELSE GCD(b, a % b)

\* the rational n/d in lowest terms, denominator positive (d # 0)
R(n, d) ==
    LET g == GCD(Abs(n), Abs(d))
        s == IF d < 0 THEN -1 ELSE 1
    IN  <<(s * n) \div g, (s * d) \div g>>

RInt(n) == <<n, 1>>

RAdd(a, b) ==
    LET g == GCD(a[2], b[2])
    IN  R(a[1] * (b[2] \div g) + b[1] * (a[2] \div g), (a[2] \div g) * b[2])

RNeg(a) == <<-a[1], a[2]>>

RSub(a, b) == RAdd(a, RNeg(b))

RMul(a, b) ==
    LET g1 == GCD(Abs(a[1]), b[2])
        g2 == GCD(Abs(b[1]), a[2])
    IN  R((a[1] \div g1) * (b[1] \div g2), (a[2] \div g2) * (b[2] \div g1))

\* a / b for b # 0
RDiv(a, b) == RMul(a, R(b[2], b[1]))

RLt(a, b) == a[1] * b[2] < b[1] * a[2]

RLe(a, b) == a[1] * b[2] <= b[1] * a[2]

RAbs(a) == <<Abs(a[1]), a[2]>>

RMin(a, b) == IF RLt(b, a) THEN b ELSE a

\* Math.floor: \div rounds towards minus infinity
RFloor(a) == a[1] \div a[2]

\* Math.round: the nearest integer, halves rounded up
RRound(a) == RFloor(RAdd(a, R(1, 2)))

\* a % b of JavaScript for a >= 0 and b > 0
RMod(a, b) == RSub(a, RMul(RInt(RFloor(RDiv(a, b))), b))

-----------------------------------------------------------------------------
(* Escape-time evaluator *)

\* a loop that stops as soon as |z|^2 reaches 4
RECURSIVE MandelbrotLoop(_, _, _, _, _, _)
MandelbrotLoopStrict(x, y, iter, cx, cy, maxIter) ==
    IF iter < maxIter /\ RLt(RAdd(RMul(x, x), RMul(y, y)), RInt(4))
    THEN LET xtemp == RAdd(RSub(RMul(x, x), RMul(y, y)), cx)
             ynew  == RAdd(RMul(RMul(RInt(2), x), y), cy)
         IN  MandelbrotLoop(xtemp, ynew, iter + 1, cx, cy, maxIter)
    ELSE iter

\* the while loop of mandelbrot; both conjuncts of its condition are pure, the
\* iteration cap is tested first so that the norm of the last value is not taken
MandelbrotLoop(x, y, iter, cx, cy, maxIter) ==
    IF iter < maxIter /\ RLe(RAdd(RMul(x, x), RMul(y, y)), RInt(4))
    THEN LET xtemp == RAdd(RSub(RMul(x, x), RMul(y, y)), cx)
             ynew  == RAdd(RMul(RMul(RInt(2), x), y), cy)
         IN  MandelbrotLoop(xtemp, ynew, iter + 1, cx, cy, maxIter)
    ELSE iter

\* an evaluator that stops when the orbit leaves the open disc of radius 1
RECURSIVE MandelbrotLoopUnitDisc(_, _, _, _, _, _)
MandelbrotLoopUnitDisc(x, y, iter, cx, cy, maxIter) ==
    IF iter < maxIter /\ RLt(RAdd(RMul(x, x), RMul(y, y)), RInt(1))
    THEN LET xtemp == RAdd(RSub(RMul(x, x), RMul(y, y)), cx)
             ynew  == RAdd(RMul(RMul(RInt(2), x), y), cy)
         IN  MandelbrotLoopUnitDisc(xtemp, ynew, iter + 1, cx, cy, maxIter)
    ELSE iter

mandelbrotUnitDisc(cx, cy, maxIter) ==
    MandelbrotLoopUnitDisc(RInt(0), RInt(0), 0, cx, cy, maxIter)

\* mandelbrot of the component (main thread)
mandelbrot(cx, cy, maxIter) ==
    MandelbrotLoop(RInt(0), RInt(0), 0, cx, cy, maxIter)

\* the while loop of the worker's copy of mandelbrot
RECURSIVE WorkerMandelbrotLoop(_, _, _, _, _, _)
WorkerMandelbrotLoop(x, y, iter, cx, cy, maxIter) ==
    IF iter < maxIter /\ RLe(RAdd(RMul(x, x), RMul(y, y)), RInt(4))
    THEN LET xtemp == RAdd(RSub(RMul(x, x), RMul(y, y)), cx)
             ynew  == RAdd(RMul(RMul(RInt(2), x), y), cy)
         IN  WorkerMandelbrotLoop(xtemp, ynew, iter + 1, cx, cy, maxIter)
    ELSE iter

\* mandelbrot of the worker
workerMandelbrot(cx, cy, maxIter) ==
    WorkerMandelbrotLoop(RInt(0), RInt(0), 0, cx, cy, maxIter)

-----------------------------------------------------------------------------
(* Colour and height mappers *)

\* Math.sin(c / 100) * 1000 for an argument of c >= 0 hundredths of a radian,
\* to about two decimals (range reduction modulo 2 pi, then Bhaskara's rational
\* approximation on [0, pi]).  Only the red modulation of the banded scheme
\* uses it.
SinMilli(c) ==
    LET t    == (c * 100) % 62832
        half == IF t >= 31416 THEN t - 31416 ELSE t
        u    == half \div 100
        P    == u * (314 - u)
        v    == (16000 * P) \div (5 * 314 * 314 - 4 * P)
    IN  IF t >= 31416 THEN -v ELSE v

\* Math.max(0, Math.min(255, v))
Clamp255(v) == IF v < 0 THEN 0 ELSE IF v > 255 THEN 255 ELSE v

\* the banded gradient of the worker for an escaping point: <<R, G, B>>
WorkerBanded(iter, maxIterations) ==
    LET normalizedIter == R(iter, maxIterations)
        band == IF RLt(normalizedIter, R(33, 100)) THEN 1
                ELSE IF RLt(normalizedIter, R(66, 100)) THEN 2 ELSE 3
        t == IF band = 1 THEN RMul(normalizedIter, RInt(3))
             ELSE IF band = 2 THEN RMul(RSub(normalizedIter, R(33, 100)), RInt(3))
             ELSE RMul(RSub(normalizedIter, R(66, 100)), RInt(3))
        baseR == IF band = 1 THEN RAdd(RInt(20), RMul(t, RInt(60)))
                 ELSE IF band = 2 THEN RAdd(RInt(80), RMul(t, RInt(20)))
                 ELSE RAdd(RInt(100), RMul(t, RInt(100)))
        baseG == IF band = 1 THEN RAdd(RInt(30), RMul(t, RInt(120)))
                 ELSE IF band = 2 THEN RAdd(RInt(150), RMul(t, RInt(105)))
                 ELSE RSub(RInt(255), RMul(t, RInt(155)))
        baseB == IF band = 1 THEN RAdd(RInt(120), RMul(t, RInt(135)))
                 ELSE IF band = 2 THEN RSub(RInt(255), RMul(t, RInt(50)))
                 ELSE RAdd(RInt(205), RMul(t, RInt(50)))
        \* redBoost = Math.sin(iter * 0.4) * 0.3 + 0.3, in ten-thousandths
        redBoost == 3 * SinMilli(40 * iter) + 3000
        \* redIntensity = Math.sin(iter * 0.15 + normalizedIter * 6) * 60, in
        \* thousandths
        redIntensity ==
            60 * SinMilli(RFloor(RAdd(RInt(15 * iter),
                                      RMul(normalizedIter, RInt(600)))))
        \* redIntensity * redBoost, in thousandths
        redMilli == (redIntensity * redBoost) \div 10000
        finalR == RFloor(RAdd(baseR, R(redMilli, 1000)))
        finalG == RFloor(baseG)
        finalB == RFloor(baseB)
    IN  <<Clamp255(finalR), Clamp255(finalG), Clamp255(finalB)>>

\* a sentinel test against the cap of the component instead of the cap sent
WorkerColorFixedCap(iter, maxIterations) ==
    IF iter = 100 \/ maxIterations = 0
    THEN <<0, 0, 0, 255>>
    ELSE WorkerBanded(iter, maxIterations) \o <<255>>

\* the four bytes the worker stores for a pixel of iteration count iter
WorkerColor(iter, maxIterations) ==
    IF iter = maxIterations
    THEN <<0, 0, 0, 255>>
    ELSE WorkerBanded(iter, maxIterations) \o <<255>>

\* hslToRgb of the component: h, s, l rationals in [0, 1]
hslToRgb(h, s, l) ==
    LET c == RMul(RSub(RInt(1), RAbs(RSub(RMul(RInt(2), l), RInt(1)))), s)
        x == RMul(c, RSub(RInt(1),
                          RAbs(RSub(RMod(RMul(h, RInt(6)), RInt(2)), RInt(1)))))
        m == RSub(l, RDiv(c, RInt(2)))
        z == RInt(0)
        rgb == IF RLe(z, h) /\ RLt(h, R(1, 6)) THEN <<c, x, z>>
               ELSE IF RLe(R(1, 6), h) /\ RLt(h, R(2, 6)) THEN <<x, c, z>>
               ELSE IF RLe(R(2, 6), h) /\ RLt(h, R(3, 6)) THEN <<z, c, x>>
               ELSE IF RLe(R(3, 6), h) /\ RLt(h, R(4, 6)) THEN <<z, x, c>>
               ELSE IF RLe(R(4, 6), h) /\ RLt(h, R(5, 6)) THEN <<x, z, c>>
               ELSE IF RLe(R(5, 6), h) /\ RLt(h, RInt(1)) THEN <<c, z, x>>
               ELSE <<z, z, z>>
    IN  <<RRound(RMul(RAdd(rgb[1], m), RInt(255))),
          RRound(RMul(RAdd(rgb[2], m), RInt(255))),
          RRound(RMul(RAdd(rgb[3], m), RInt(255)))>>

\* the iteration cap renderMandelbrot and generateMandelbrotHeightMap pass
CpuMaxIter == 100

\* a shading of lightness 0 for every escaping point
CpuColorUnlit(iter) ==
    IF iter = CpuMaxIter
    THEN <<0, 0, 0, 255>>
    ELSE LET hue == (iter * 8) % 360
         IN  hslToRgb(R(hue, 360), RInt(1), RInt(0)) \o <<255>>

\* the four bytes renderMandelbrot stores for a pixel of iteration count iter
CpuColor(iter) ==
    IF iter = CpuMaxIter
    THEN <<0, 0, 0, 255>>
    ELSE LET hue == (iter * 8) % 360
             saturation == 100
             lightness == IF iter < CpuMaxIter THEN 50 ELSE 0
         IN  hslToRgb(R(hue, 360), R(saturation, 100), R(lightness, 100))
                 \o <<255>>

\* the height and the colour generateMandelbrotHeightMap stores for a vertex
HeightMapVertex(iter) ==
    LET normalizedIter == R(iter, CpuMaxIter)
    IN  [height |-> IF iter = CpuMaxIter THEN RInt(0)
                    ELSE RMul(normalizedIter, RInt(2)),
         color  |-> IF iter = CpuMaxIter THEN <<0, 0, 0>>
                    ELSE hslToRgb(R((iter * 8) % 360, 360), RInt(1), R(1, 2))]

-----------------------------------------------------------------------------
(* Bounds of the inputs *)

\* iteration caps 0..MaxIter are tried by the evaluator
MaxIter == 4

\* the points are the multiples of 1/2 with |coordinate| <= GridSpan / 2
GridSpan == 4

GridCoords == {R(n, 2) : n \in (-GridSpan)..GridSpan}

\* pixels are shaded for caps up to CapSlack above the iteration count, and
\* for the cap of the component
CapSlack == 2

ShadeInputs ==
    {c \in [iter : 0..CpuMaxIter, maxIterations : 0..CpuMaxIter] :
        /\ c.iter <= c.maxIterations
        /\ c.maxIterations - c.iter <= CapSlack \/ c.maxIterations = CpuMaxIter}

\* canvases of the tiled renderer: heights 0..MaxHeight, 1..MaxWorkers workers
MaxHeight == 2

MaxWorkers == 2

Widths == {1, 2}

Canvases == [width : {2}, height : 0..MaxHeight,
             workerCount : 1..MaxWorkers, maxIterations : {3}]

\* iteration caps 1..MaxTileIter are sent to a worker run on its own
MaxTileIter == 3

\* the view state the component starts with
InitialView == [zoom |-> RInt(1), centerX |-> R(-1, 2), centerY |-> RInt(0)]

\* the view states frames are requested for
TileViews == {InitialView, [zoom |-> R(7, 4), centerX |-> RInt(0), centerY |-> RInt(0)]}


\* the row ranges [startY, endY) within a frame of the given height
RowRanges(height) ==
    {t \in [rowStart : 0..height, rowEnd : 0..height] : t.rowStart <= t.rowEnd}

-----------------------------------------------------------------------------
(* The tile worker *)

\* Math.min(width, height) / 3.5 * zoom
WorkerZoomScale(width, height, zoom) ==
    RMul(RDiv(RInt(IF width < height THEN width ELSE height), R(7, 2)), zoom)

\* the complex-plane point the worker evaluates for pixel (px, py) of the frame
WorkerPoint(px, py, data) ==
    LET zoomScale == WorkerZoomScale(data.width, data.height, data.zoom)
        canvasCenterX == R(data.width, 2)
        canvasCenterY == R(data.height, 2)
        x == RAdd(RDiv(RSub(RInt(px), canvasCenterX), zoomScale), data.centerX)
        y == RAdd(RDiv(RSub(RInt(py), canvasCenterY), zoomScale), data.centerY)
    IN  <<x, y>>

\* the four bytes the worker computes for pixel (px, py) of the frame in data
WorkerPixel(px, py, data) ==
    LET point == WorkerPoint(px, py, data)
        iter == workerMandelbrot(point[1], point[2], data.maxIterations)
    IN  WorkerColor(iter, data.maxIterations)

\* an outer loop that runs up to and including endY
WorkerRowsInclusive(startY, endY) == startY..endY

\* the rows the outer loop of the worker visits
WorkerRows(startY, endY) == startY..(endY - 1)

\* an offset taken in the whole frame instead of in the tile
PixelIndexInFrame(px, py, startY, width) == (py * width + px) * 4

\* the offset in the tile's buffer of the first byte of pixel (px, py)
PixelIndex(px, py, startY, width) == ((py - startY) * width + px) * 4

\* the buffer the worker fills: rowCount * width * 4 bytes, zero when created,
\* then four bytes stored per visited pixel (a store past the end is dropped,
\* a later store to the same offset replaces an earlier one)
WorkerImageData(data) ==
    LET rowCount == data.endY - data.startY
        len      == rowCount * data.width * 4
        visits   == {<<py, px>> : py \in WorkerRows(data.startY, data.endY),
                                  px \in 0..(data.width - 1)}
        pixel    == [v \in visits |-> WorkerPixel(v[2], v[1], data)]
        index(v) == PixelIndex(v[2], v[1], data.startY, data.width)
        At(k)    == {v \in visits : index(v) <= k /\ k <= index(v) + 3}
        Last(S)  == CHOOSE v \in S : \A u \in S :
                        u[1] < v[1] \/ (u[1] = v[1] /\ u[2] <= v[2])
    IN  [i \in 1..len |->
            IF At(i - 1) = {} THEN 0
            ELSE LET v == Last(At(i - 1)) IN pixel[v][i - index(v)]]

\* the compute message for a tile of the current canvas under a view
ComputeMessage(tile, cv, view) ==
    [type |-> "compute",
     data |-> [startY |-> tile.rowStart, endY |-> tile.rowEnd,
               width |-> cv.width, height |-> cv.height,
               centerX |-> view.centerX, centerY |-> view.centerY,
               zoom |-> view.zoom, maxIterations |-> cv.maxIterations]]

\* the compute messages a worker can get in the specifications below
WorkerInputs ==
    {ComputeMessage(t, cv, view) :
        t \in RowRanges(MaxHeight),
        cv \in [width : Widths, height : 0..MaxHeight, workerCount : {1},
                 maxIterations : 1..MaxTileIter],
        view \in TileViews}

\* WorkerImageData of those messages, evaluated once
WorkerTable ==
    [d \in {m.data : m \in {i \in WorkerInputs : i.data.endY <= i.data.height}}
        |-> WorkerImageData(d)]

\* the buffer the worker fills for the frame and rows in data
WorkerBuffer(data) ==
    IF data \in DOMAIN WorkerTable THEN WorkerTable[data] ELSE WorkerImageData(data)

\* a response that echoes the rows relative to the tile
WorkerOnMessageRelativeRows(msg) ==
    IF msg.type = "compute"
    THEN {[type |-> "result",
           data |-> [startY    |-> 0,
                     endY      |-> msg.data.endY - msg.data.startY,
                     imageData |-> WorkerBuffer(msg.data)]]}
    ELSE {}

\* a handler that answers a message of any type
WorkerOnMessageAnyType(msg) ==
    {[type |-> "result",
      data |-> [startY    |-> msg.data.startY,
                endY      |-> msg.data.endY,
                imageData |-> WorkerBuffer(msg.data)]]}

\* the messages self.onmessage posts for a message it receives
WorkerOnMessage(msg) ==
    IF msg.type = "compute"
    THEN {[type |-> "result",
           data |-> [startY    |-> msg.data.startY,
                     endY      |-> msg.data.endY,
                     imageData |-> WorkerBuffer(msg.data)]]}
    ELSE {}

-----------------------------------------------------------------------------
(* The tile scheduler *)

\* row ranges of a fixed number of rows each, the quotient rounded up
PartitionFixedRows(height, workerCount) ==
    LET rows == (height + workerCount - 1) \div workerCount
    IN  [i \in 1..workerCount |->
            [rowStart |-> (i - 1) * rows, rowEnd |-> i * rows]]

\* the i-th of workerCount row ranges of [0, height), sizes differing by at
\* most one
PartitionRemainderLast(height, workerCount) ==
    [i \in 1..workerCount |->
        [rowStart |-> (i - 1) * (height \div workerCount),
         rowEnd   |-> IF i = workerCount THEN height
                      ELSE i * (height \div workerCount)]]

Partition(height, workerCount) ==
    [i \in 1..workerCount |->
        [rowStart |-> ((i - 1) * height) \div workerCount,
         rowEnd   |-> (i * height) \div workerCount]]

\* a zero-initialised frame of the canvas
BlankFrame(cv) == [i \in 1..(cv.width * cv.height * 4) |-> 0]

\* copy a tile result into the frame at the row offset of its rowStart
CopyAt(frame, result, cv) ==
    LET offset == result.startY * cv.width * 4
        n      == Len(result.imageData)
    IN  [i \in 1..Len(frame) |->
            IF offset < i /\ i <= offset + n
            THEN result.imageData[i - offset] ELSE frame[i]]

\* the merge: every received result copied in turn into a blank frame
RECURSIVE MergeResults(_, _, _)
MergeResults(frame, results, cv) ==
    IF results = <<>> THEN frame
    ELSE MergeResults(CopyAt(frame, Head(results).msg.data, cv), Tail(results), cv)

\* a scheduler that takes every result for one of the current frame
NeverStale(worker) == FALSE

\* a result or an error event of a worker of an earlier frame
IsStale(worker) == worker[1] # generation

\* every worker of the current frame has reported
AllReported == pending = {}

\* at most MaxGen frames are requested
MaxGen == 2

\* the tiles in flight: dispatched, completion not yet received
InFlight == {m.worker : m \in inbox \cup outbox}

\* a new view state is set: the frame is partitioned and one compute message
\* is posted per worker; earlier tiles stay in flight
Render(view) ==
    /\ generation < MaxGen
    /\ view # frameView
    /\ \A w \in InFlight : w[1] = generation
    /\ generation' = generation + 1
    /\ frameView' = view
    /\ LET tiles == Partition(canvas.height, canvas.workerCount)
           sends == [i \in 1..canvas.workerCount |->
                        [worker |-> <<generation', i>>,
                         msg    |-> ComputeMessage(tiles[i], canvas, view)]]
       IN  /\ dispatched' = dispatched \o sends
           /\ inbox' = inbox \cup {sends[i] : i \in 1..canvas.workerCount}
           /\ pending' = {sends[i].worker : i \in 1..canvas.workerCount}
    /\ received' = <<>>
    /\ UNCHANGED <<notTile, discarded, canvas, outbox, failed, frameBuffer, frameGen, frameSources>>

\* a worker that stores its rows in the frame buffer itself
WorkerComputeShared(m) ==
    /\ m \in inbox
    /\ inbox' = inbox \ {m}
    /\ outbox' = outbox \cup
           {[worker |-> m.worker, msg |-> r] : r \in WorkerOnMessage(m.msg)}
    /\ frameBuffer' = MergeResults(BlankFrame(canvas),
           <<[worker |-> m.worker,
              msg |-> CHOOSE r \in WorkerOnMessage(m.msg) : TRUE]>>, canvas)
    /\ UNCHANGED <<notTile, discarded, canvas, generation, frameView, dispatched, failed, received,
                   pending, frameGen, frameSources>>

\* a worker handles its compute message and posts the result
WorkerCompute(m) ==
    /\ m \in inbox
    /\ inbox' = inbox \ {m}
    /\ outbox' = outbox \cup
           {[worker |-> m.worker, msg |-> r] : r \in WorkerOnMessage(m.msg)}
    /\ UNCHANGED <<notTile, discarded, canvas, generation, frameView, dispatched, failed, received,
                   pending, frameBuffer, frameGen, frameSources>>

\* a handler that posts its buffer although it threw
WorkerFailPosts(m) ==
    /\ m \in inbox
    /\ failed = {}
    /\ inbox' = inbox \ {m}
    /\ outbox' = outbox \cup
           {[worker |-> m.worker, msg |-> r] : r \in WorkerOnMessage(m.msg)}
    /\ failed' = failed \cup {m.worker}
    /\ UNCHANGED <<notTile, discarded, canvas, generation, frameView, dispatched, received, pending,
                   frameBuffer, frameGen, frameSources>>

\* the handler of one worker throws: nothing is posted, the scheduler gets an
\* error event
WorkerFail(m) ==
    /\ m \in inbox
    /\ failed = {}
    /\ inbox' = inbox \ {m}
    /\ outbox' = outbox \cup {[worker |-> m.worker, msg |-> [type |-> "error"]]}
    /\ failed' = failed \cup {m.worker}
    /\ UNCHANGED <<notTile, discarded, canvas, generation, frameView, dispatched, received, pending,
                   frameBuffer, frameGen, frameSources>>

\* the scheduler receives a result: kept for the merge unless it is stale
OnResult(o) ==
    /\ o \in outbox
    /\ o.msg.type = "result"
    /\ outbox' = outbox \ {o}
    /\ IF IsStale(o.worker)
       THEN /\ discarded' = discarded \cup {o.worker}
            /\ UNCHANGED <<received, pending>>
       ELSE /\ received' = Append(received, o)
            /\ pending' = pending \ {o.worker}
            /\ UNCHANGED discarded
    /\ UNCHANGED <<notTile, canvas, generation, frameView, dispatched, inbox, failed,
                   frameBuffer, frameGen, frameSources>>

\* the scheduler receives an error event: the tile has reported, without rows
OnError(o) ==
    /\ o \in outbox
    /\ o.msg.type = "error"
    /\ outbox' = outbox \ {o}
    /\ pending' = IF IsStale(o.worker) THEN pending ELSE pending \ {o.worker}
    /\ UNCHANGED <<notTile, discarded, canvas, generation, frameView, dispatched, inbox, failed,
                   received, frameBuffer, frameGen, frameSources>>

\* the barrier: all tiles of the frame have reported, the results are merged
Merge ==
    /\ generation > 0
    /\ frameGen # generation
    /\ AllReported
    /\ frameBuffer' = MergeResults(BlankFrame(canvas), received, canvas)
    /\ frameGen' = generation
    /\ frameSources' = {received[i].worker : i \in DOMAIN received}
    /\ UNCHANGED <<notTile, discarded, canvas, generation, frameView, dispatched, inbox, outbox,
                   failed, received, pending>>

-----------------------------------------------------------------------------
(* The view-state controller: wheel zoom and the bookmark animation *)

\* duration of animateToBookmark, in milliseconds
AnimationDuration == 2000

\* animation frames per duration: the clock advances a frame at a time
FramesPerAnimation == 4

\* milliseconds between two animation frames
FrameMs == AnimationDuration \div FramesPerAnimation

\* frames the clock runs for
MaxClock == 6

\* wheel events handled
MaxZooms == 4

\* calls of animateToBookmark
MaxCalls == 3

\* window sizes (innerWidth, innerHeight), landscape and portrait
WindowSizes == {[width |-> 14, height |-> 7], [width |-> 8, height |-> 12]}

\* cursor positions of wheel events, relative to the canvas
MousePositions == {<<0, 0>>, <<9, 5>>}

\* wheel deltas: away from the user and towards the user
DeltaYs == {-1, 1}

\* the views of the stored bookmarks
BookmarkViews ==
    {[zoom |-> RInt(2), centerX |-> RInt(-1), centerY |-> RInt(0)],
     [zoom |-> R(1, 2), centerX |-> RInt(0), centerY |-> R(1, 2)]}

\* the complex-plane point renderMandelbrot evaluates for pixel (px, py)
PixelToComplex(px, py, width, height, view) ==
    LET zoom    == RMul(RDiv(RInt(IF width < height THEN width ELSE height),
                             R(7, 2)), view.zoom)
        centerX == R(width, 2)
        centerY == R(height, 2)
    IN  <<RAdd(RDiv(RSub(RInt(px), centerX), zoom), view.centerX),
          RAdd(RDiv(RSub(RInt(py), centerY), zoom), view.centerY)>>

\* the complex-plane point fs_main of the shader evaluates for the fragment at
\* uv, under the uniforms renderFractalWebGPU writes
ShaderPoint(uv, uniforms) ==
    LET px == RMul(uv[1], RInt(uniforms.screenWidth))
        py == RMul(RSub(RInt(1), uv[2]), RInt(uniforms.screenHeight))
        zoomScale == RMul(RDiv(RInt(IF uniforms.screenWidth < uniforms.screenHeight
                                    THEN uniforms.screenWidth
                                    ELSE uniforms.screenHeight), R(7, 2)),
                          uniforms.zoom)
        centerX == R(uniforms.screenWidth, 2)
        centerY == R(uniforms.screenHeight, 2)
    IN  <<RAdd(RDiv(RSub(px, centerX), zoomScale), uniforms.centerX),
          RAdd(RDiv(RSub(py, centerY), zoomScale), uniforms.centerY)>>

\* the complex-plane point generateMandelbrotHeightMap evaluates for vertex
\* (x, y) of a mesh of meshResolution vertices a side
HeightMapPoint(x, y, meshResolution, view) ==
    LET fx == RAdd(RDiv(RMul(RSub(R(x, meshResolution), R(1, 2)), RInt(4)),
                        view.zoom), view.centerX)
        fy == RAdd(RDiv(RMul(RSub(R(y, meshResolution), R(1, 2)), RInt(4)),
                        view.zoom), view.centerY)
    IN  <<fx, fy>>

\* zoomFactor of handleWheel
ZoomFactor(deltaY) == IF deltaY > 0 THEN R(9, 10) ELSE R(11, 10)

\* an updater that divides by the zoom before the step on both sides
WheelUpdateOldZoom(prev, mouseX, mouseY, zoomFactor, dims) ==
    LET currentZoom == RMul(RDiv(RInt(IF dims.width < dims.height
                                      THEN dims.width ELSE dims.height),
                                 R(7, 2)), prev.zoom)
        dx == RSub(RInt(mouseX), R(dims.width, 2))
        dy == RSub(RInt(mouseY), R(dims.height, 2))
        mouseRealX == RAdd(RDiv(dx, currentZoom), prev.centerX)
        mouseRealY == RAdd(RDiv(dy, currentZoom), prev.centerY)
    IN  [zoom    |-> RMul(prev.zoom, zoomFactor),
         centerX |-> RSub(mouseRealX, RDiv(dx, currentZoom)),
         centerY |-> RSub(mouseRealY, RDiv(dy, currentZoom))]

\* the updater handleWheel passes to setViewState, applied to prev
WheelUpdate(prev, mouseX, mouseY, zoomFactor, dims) ==
    LET currentZoom == RMul(RDiv(RInt(IF dims.width < dims.height
                                      THEN dims.width ELSE dims.height),
                                 R(7, 2)), prev.zoom)
        newZoom == RMul(prev.zoom, zoomFactor)
        dx == RSub(RInt(mouseX), R(dims.width, 2))
        dy == RSub(RInt(mouseY), R(dims.height, 2))
        mouseRealX == RAdd(RDiv(dx, currentZoom), prev.centerX)
        mouseRealY == RAdd(RDiv(dy, currentZoom), prev.centerY)
        newCenterX == RSub(mouseRealX, RDiv(dx, RMul(currentZoom, zoomFactor)))
        newCenterY == RSub(mouseRealY, RDiv(dy, RMul(currentZoom, zoomFactor)))
    IN  [zoom |-> newZoom, centerX |-> newCenterX, centerY |-> newCenterY]

\* the updater handleMouseMove passes to setViewState while dragging
PanUpdate(prev, deltaX, deltaY, dims) ==
    LET currentZoom == RMul(RDiv(RInt(IF dims.width < dims.height
                                      THEN dims.width ELSE dims.height),
                                 R(7, 2)), prev.zoom)
    IN  [prev EXCEPT !.centerX = RSub(prev.centerX, RDiv(RInt(deltaX), currentZoom)),
                     !.centerY = RSub(prev.centerY, RDiv(RInt(deltaY), currentZoom))]

\* a queued setViewState: a value (animate) or an updater (handleWheel,
\* handleMouseMove)
SetValue(view) ==
    [kind |-> "value", value |-> view, mouseX |-> 0, mouseY |-> 0,
     zoomFactor |-> RInt(1), dims |-> [width |-> 0, height |-> 0]]

WheelUpdater(mouseX, mouseY, zoomFactor, dims) ==
    [kind |-> "updater", value |-> InitialView, mouseX |-> mouseX,
     mouseY |-> mouseY, zoomFactor |-> zoomFactor, dims |-> dims]

PanUpdater(deltaX, deltaY, dims) ==
    [kind |-> "pan", value |-> InitialView, mouseX |-> deltaX,
     mouseY |-> deltaY, zoomFactor |-> RInt(1), dims |-> dims]

\* the state after one queued update
ApplyUpdate(prev, u) ==
    IF u.kind = "value" THEN u.value
    ELSE IF u.kind = "pan" THEN PanUpdate(prev, u.mouseX, u.mouseY, u.dims)
    ELSE WheelUpdate(prev, u.mouseX, u.mouseY, u.zoomFactor, u.dims)

\* the state after the queued updates, processed in order
RECURSIVE ApplyUpdates(_, _)
ApplyUpdates(prev, queue) ==
    IF queue = <<>> THEN prev
    ELSE ApplyUpdates(ApplyUpdate(prev, Head(queue)), Tail(queue))

\* the wheel updaters among the queued updates with the state each got and
\* the state each returned
RECURSIVE WheelEntries(_, _)
WheelEntries(prev, queue) ==
    IF queue = <<>> THEN <<>>
    ELSE LET u    == Head(queue)
             next == ApplyUpdate(prev, u)
         IN  (IF u.kind = "updater"
              THEN <<[mouseX |-> u.mouseX, mouseY |-> u.mouseY,
                      zoomFactor |-> u.zoomFactor, dims |-> u.dims,
                      before |-> prev, after |-> next]>>
              ELSE <<>>) \o WheelEntries(next, Tail(queue))

easeInOutQuad(t) ==
    IF RLt(t, R(1, 2))
    THEN RMul(RInt(2), RMul(t, t))
    ELSE RAdd(RInt(-1), RMul(RSub(RInt(4), RMul(RInt(2), t)), t))

\* start + (end - start) * easedProgress
Interpolate(start, end, easedProgress) ==
    RAdd(start, RMul(RSub(end, start), easedProgress))

\* Date.now()
Now == clock * FrameMs

\* handleWheel on the 2D canvas: an updater is queued for the view state
handleWheel(mouseX, mouseY, deltaY) ==
    /\ zooms' = zooms + 1
    /\ pendingView' = Append(pendingView,
           WheelUpdater(mouseX, mouseY, ZoomFactor(deltaY), dimensions))
    /\ UNCHANGED <<notView, dimensions, viewState, isAnimating,
                   pendingAnimating, loops, clock, calls, lastCall, wheelLog>>

\* a callback that starts an animation whether or not one is in flight
animateToBookmarkUnguarded(bookmark) ==
    /\ calls < MaxCalls
    /\ calls' = calls + 1
    /\ lastCall' = [bookmark |-> bookmark, outcome |-> "started"]
    /\ isAnimating' = TRUE
    /\ loops' = loops \cup
           {[id |-> calls', startState |-> viewState, endState |-> bookmark,
             startTime |-> Now, ticked |-> clock]}
    /\ UNCHANGED <<notView, dimensions, viewState, pendingView,
                   pendingAnimating, clock, zooms, wheelLog>>

\* the Go button's onClick: animateToBookmark runs with the isAnimating and
\* viewState of the last render; the setIsAnimating(true) of a click is
\* rendered before the next event is dispatched, the first animate call waits
\* for the next animation frame
animateToBookmark(bookmark) ==
    /\ calls < MaxCalls
    /\ calls' = calls + 1
    /\ IF isAnimating
       THEN /\ lastCall' = [bookmark |-> bookmark, outcome |-> "ignored"]
            /\ UNCHANGED <<isAnimating, loops>>
       ELSE /\ lastCall' = [bookmark |-> bookmark, outcome |-> "started"]
            /\ isAnimating' = TRUE
            /\ loops' = loops \cup
                   {[id |-> calls', startState |-> viewState,
                     endState |-> bookmark, startTime |-> Now,
                     ticked |-> clock]}
    /\ UNCHANGED <<notView, dimensions, viewState, pendingView,
                   pendingAnimating, clock, zooms, wheelLog>>

\* progress of animate: Math.min(elapsed / duration, 1)
TickProgress(loop) ==
    LET elapsed == Now - loop.startTime
    IN  RMin(R(elapsed, AnimationDuration), RInt(1))

\* the view state a call of animate sets
TickView(loop) ==
    LET easedProgress == easeInOutQuad(TickProgress(loop))
    IN  [zoom    |-> Interpolate(loop.startState.zoom,
                                 loop.endState.zoom, easedProgress),
         centerX |-> Interpolate(loop.startState.centerX,
                                 loop.endState.centerX, easedProgress),
         centerY |-> Interpolate(loop.startState.centerY,
                                 loop.endState.centerY, easedProgress)]

\* animate, the animation-frame callback of a running animation: at most one
\* call per frame; the view state it sets is queued, and so is the
\* setIsAnimating(false) of its last call
animate(loop) ==
    /\ loop \in loops
    /\ loop.ticked < clock
    /\ pendingView' = Append(pendingView, SetValue(TickView(loop)))
    /\ IF RLt(TickProgress(loop), RInt(1))
       THEN /\ loops' = (loops \ {loop}) \cup {[loop EXCEPT !.ticked = clock]}
            /\ UNCHANGED pendingAnimating
       ELSE /\ loops' = loops \ {loop}
            /\ pendingAnimating' = Append(pendingAnimating, FALSE)
    /\ UNCHANGED <<notView, dimensions, viewState, isAnimating, clock, zooms,
                   calls, lastCall, wheelLog>>

\* React renders: the queued updates are processed in order and the result
\* is the state the next handlers see
Commit ==
    /\ pendingView # <<>> \/ pendingAnimating # <<>>
    /\ viewState' = ApplyUpdates(viewState, pendingView)
    /\ wheelLog' = wheelLog \o WheelEntries(viewState, pendingView)
    /\ isAnimating' = IF pendingAnimating = <<>> THEN isAnimating
                      ELSE pendingAnimating[Len(pendingAnimating)]
    /\ pendingView' = <<>>
    /\ pendingAnimating' = <<>>
    /\ UNCHANGED <<notView, dimensions, loops, clock, zooms, calls, lastCall>>

\* the next animation frame
Frame ==
    /\ clock < MaxClock
    /\ clock' = clock + 1
    /\ UNCHANGED <<notView, dimensions, viewState, isAnimating, pendingView,
                   pendingAnimating, loops, zooms, calls, lastCall, wheelLog>>

\* Date.now() is the wall clock: the system's time is set back to an earlier
\* reading between two animation frames, and the next frame of every running
\* animation reads it
ClockSetBack(to) ==
    /\ to < clock
    /\ loops # {}
    /\ pendingView = <<>>
    /\ clock' = to
    /\ loops' = {[loop EXCEPT !.ticked = IF @ < to THEN @ ELSE to - 1] :
                     loop \in loops}
    /\ UNCHANGED <<notView, dimensions, viewState, isAnimating, pendingView,
                   pendingAnimating, zooms, calls, lastCall, wheelLog>>

-----------------------------------------------------------------------------
(* Mouse gestures and the bookmark collection *)

\* mouse events and delete clicks handled
MaxMouseEvents == 6

\* clock ticks between the events
MaxTicks == 1

\* switches between the 3D and the 2D view
MaxSwitches == 1

\* the window of the bookmark specification
BookmarkWindow == [width |-> 60, height |-> 40]

\* positions of the mouse events: rectangles of 10 x 10, 20 x 30 and 30 x 40
\* pixels lie between them
SelectionPoints == {<<0, 0>>, <<10, 10>>, <<30, 40>>}

\* the handler that ran last
Event(type, id, rect) == [type |-> type, id |-> id, rect |-> rect]

\* a test that accepts a side of exactly the threshold
SelectionAtLeastThreshold(rectWidth, rectHeight) ==
    rectWidth >= 20 /\ rectHeight >= 20

\* a selection that is saved whatever its size
SelectionNotEmpty(rectWidth, rectHeight) == rectWidth > 0 /\ rectHeight > 0

\* "Only save if the selection is large enough"
SelectionLargeEnough(rectWidth, rectHeight) == rectWidth > 20 /\ rectHeight > 20

\* the bookmark saveBookmark builds for a rectangle, from the window size, the
\* view state and the number of bookmarks of the last render
NewBookmark(rect, dims, view, count, now) ==
    LET rectCenterX == R(rect.startX + rect.endX, 2)
        rectCenterY == R(rect.startY + rect.endY, 2)
        rectWidth   == Abs(rect.endX - rect.startX)
        rectHeight  == Abs(rect.endY - rect.startY)
        currentZoom == RMul(RDiv(RInt(IF dims.width < dims.height
                                      THEN dims.width ELSE dims.height),
                                 R(7, 2)), view.zoom)
        fractalCenterX == RAdd(RDiv(RSub(rectCenterX, R(dims.width, 2)),
                                    currentZoom), view.centerX)
        fractalCenterY == RAdd(RDiv(RSub(rectCenterY, R(dims.height, 2)),
                                    currentZoom), view.centerY)
        zoomFactorX == R(dims.width, rectWidth)
        zoomFactorY == R(dims.height, rectHeight)
        newZoom == RMul(RMul(view.zoom, RMin(zoomFactorX, zoomFactorY)), R(4, 5))
    IN  [id        |-> ToString(now),
         name      |-> "Bookmark " \o ToString(count + 1),
         centerX   |-> fractalCenterX,
         centerY   |-> fractalCenterY,
         zoom      |-> newZoom,
         timestamp |-> now]

\* a filter that drops the first bookmark whatever the id is
RemoveFirst(list, id) == IF list = <<>> THEN list ELSE Tail(list)

\* prev.filter(bookmark => bookmark.id !== id)
RemoveId(list, id) == SelectSeq(list, LAMBDA bookmark : bookmark.id # id)

\* a stringify that leaves the last record out
JsonStringifyButLast(list) ==
    [i \in 1..(Len(list) - 1) |-> [syntaxOk |-> TRUE, value |-> list[i]]]

\* JSON.stringify of a list of records: one entry of text for each
JsonStringify(list) ==
    [i \in DOMAIN list |-> [syntaxOk |-> TRUE, value |-> list[i]]]

\* JSON.parse of such a text: it throws when an entry is no JSON
JsonParse(text) ==
    IF \E i \in DOMAIN text : ~text[i].syntaxOk
    THEN [ok |-> FALSE, value |-> <<>>]
    ELSE [ok |-> TRUE, value |-> [i \in DOMAIN text |-> text[i].value]]

\* localStorage without the item, and with a text
NoItem == [present |-> FALSE, text |-> <<>>]

Item(text) == [present |-> TRUE, text |-> text]

\* handleMouseDown
handleMouseDown(shiftKey, button, x, y) ==
    /\ mounted
    /\ mouseEvents' = mouseEvents + 1
    /\ lastEvent' = Event("mousedown", "", <<>>)
    /\ IF shiftKey /\ ~is3D
       THEN /\ isSelecting' = TRUE
            /\ selectionRect' = <<[startX |-> x, startY |-> y,
                                   endX |-> x, endY |-> y]>>
            /\ UNCHANGED <<isDragging, isRotating, lastMousePos>>
       ELSE IF is3D /\ button = 0
       THEN /\ isRotating' = TRUE
            /\ UNCHANGED <<isDragging, isSelecting, lastMousePos, selectionRect>>
       ELSE IF ~is3D
       THEN /\ isDragging' = TRUE
            /\ lastMousePos' = <<x, y>>
            /\ UNCHANGED <<isSelecting, isRotating, selectionRect>>
       ELSE UNCHANGED <<isDragging, isSelecting, isRotating, lastMousePos,
                        selectionRect>>
    /\ UNCHANGED <<notGesture, viewVars, mounted, bookmarks, storage, saveDue>>

\* a mouse move that pans whatever the view mode is
handleMouseMoveAnyMode(x, y) ==
    /\ mounted
    /\ mouseEvents' = mouseEvents + 1
    /\ lastEvent' = Event("mousemove", "", <<>>)
    /\ IF isSelecting /\ selectionRect # <<>> /\ ~is3D
       THEN /\ selectionRect' = <<[selectionRect[1] EXCEPT !.endX = x, !.endY = y]>>
            /\ UNCHANGED <<lastMousePos, pendingView>>
       ELSE IF isRotating /\ is3D
       THEN UNCHANGED <<selectionRect, lastMousePos, pendingView>>
       ELSE IF isDragging
       THEN /\ pendingView' = Append(pendingView,
                   PanUpdater(x - lastMousePos[1], y - lastMousePos[2], dimensions))
            /\ lastMousePos' = <<x, y>>
            /\ UNCHANGED selectionRect
       ELSE UNCHANGED <<selectionRect, lastMousePos, pendingView>>
    /\ UNCHANGED <<notGesture, viewButQueue, mounted, isDragging, isSelecting,
                   isRotating, bookmarks, storage, saveDue>>

\* handleMouseMove: the selection grows, or the view is panned by the
\* distance from the last position (the camera of the 3D view is not part of
\* the model)
handleMouseMove(x, y) ==
    /\ mounted
    /\ mouseEvents' = mouseEvents + 1
    /\ lastEvent' = Event("mousemove", "", <<>>)
    /\ IF isSelecting /\ selectionRect # <<>> /\ ~is3D
       THEN /\ selectionRect' = <<[selectionRect[1] EXCEPT !.endX = x, !.endY = y]>>
            /\ UNCHANGED <<lastMousePos, pendingView>>
       ELSE IF isRotating /\ is3D
       THEN UNCHANGED <<selectionRect, lastMousePos, pendingView>>
       ELSE IF isDragging /\ ~is3D
       THEN /\ pendingView' = Append(pendingView,
                   PanUpdater(x - lastMousePos[1], y - lastMousePos[2], dimensions))
            /\ lastMousePos' = <<x, y>>
            /\ UNCHANGED selectionRect
       ELSE UNCHANGED <<selectionRect, lastMousePos, pendingView>>
    /\ UNCHANGED <<notGesture, viewButQueue, mounted, isDragging, isSelecting,
                   isRotating, bookmarks, storage, saveDue>>

\* handleMouseUp, with the saveBookmark it calls for a selection that is large
\* enough
handleMouseUp ==
    /\ mounted
    /\ mouseEvents' = mouseEvents + 1
    /\ IF isSelecting /\ selectionRect # <<>> /\ ~is3D
       THEN LET rect       == selectionRect[1]
                rectWidth  == Abs(rect.endX - rect.startX)
                rectHeight == Abs(rect.endY - rect.startY)
            IN  /\ lastEvent' = Event("mouseup", "", selectionRect)
                /\ IF SelectionLargeEnough(rectWidth, rectHeight)
                   THEN /\ bookmarks' = Append(bookmarks,
                               NewBookmark(rect, dimensions, viewState,
                                           Len(bookmarks), Now))
                        /\ saveDue' = TRUE
                   ELSE UNCHANGED <<bookmarks, saveDue>>
                /\ isSelecting' = FALSE
                /\ selectionRect' = <<>>
                /\ UNCHANGED <<isDragging, isRotating>>
       ELSE /\ lastEvent' = Event("mouseup", "", <<>>)
            /\ isDragging' = FALSE
            /\ isRotating' = FALSE
            /\ UNCHANGED <<isSelecting, selectionRect, bookmarks, saveDue>>
    /\ UNCHANGED <<notGesture, viewVars, mounted, lastMousePos, storage>>

\* handleWheel3D, the wheel listener of the 3D mount point: it leaves at once
\* in 2D, and else moves the camera, which is not part of the model
handleWheel3D(deltaY) ==
    /\ mounted
    /\ mouseEvents' = mouseEvents + 1
    /\ lastEvent' = Event(IF is3D THEN "wheel3D" ELSE "none", "", <<>>)
    /\ UNCHANGED <<notGesture, viewVars, mounted, isDragging, isSelecting,
                   isRotating, lastMousePos, selectionRect, bookmarks, storage,
                   saveDue>>

\* deleteBookmark
deleteBookmark(id) ==
    /\ mounted
    /\ mouseEvents' = mouseEvents + 1
    /\ lastEvent' = Event("delete", id, <<>>)
    /\ bookmarks' = RemoveId(bookmarks, id)
    /\ saveDue' = TRUE
    /\ UNCHANGED <<notGesture, viewVars, mounted, isDragging, isSelecting,
                   isRotating, lastMousePos, selectionRect, storage>>

\* the effects of the first render: the stored bookmarks are loaded, and the
\* save effect stores the empty collection of that render
Mount ==
    /\ ~mounted
    /\ mounted' = TRUE
    /\ lastEvent' = Event("mount", "", storage.text)
    /\ LET savedBookmarks == storage
           parsed == JsonParse(savedBookmarks.text)
       IN  IF savedBookmarks.present /\ parsed.ok
           THEN bookmarks' = parsed.value /\ saveDue' = TRUE
           ELSE UNCHANGED <<bookmarks, saveDue>>
    /\ storage' = Item(JsonStringify(bookmarks))
    /\ UNCHANGED <<notGesture, viewVars, isDragging, isSelecting, isRotating,
                   lastMousePos, selectionRect, mouseEvents>>

\* the mount when the mount effects run twice before the next render (the
\* development double invocation): the load effect queues the stored list,
\* the save effect stores the empty collection of the first render, the
\* second load effect reads that item and queues its list, the second save
\* effect stores the empty collection again, and the render that follows has
\* the list queued last
MountTwice ==
    /\ ~mounted
    /\ mounted' = TRUE
    /\ lastEvent' = Event("mount", "", storage.text)
    /\ LET firstItem   == storage
           firstParse  == JsonParse(firstItem.text)
           firstQueue  == IF firstItem.present /\ firstParse.ok
                          THEN <<firstParse.value>> ELSE <<>>
           firstSave   == Item(JsonStringify(bookmarks))
           secondParse == JsonParse(firstSave.text)
           secondQueue == IF firstSave.present /\ secondParse.ok
                          THEN Append(firstQueue, secondParse.value)
                          ELSE firstQueue
       IN  /\ IF secondQueue # <<>>
              THEN bookmarks' = secondQueue[Len(secondQueue)] /\ saveDue' = TRUE
              ELSE UNCHANGED <<bookmarks, saveDue>>
           /\ storage' = Item(JsonStringify(bookmarks))
    /\ UNCHANGED <<notGesture, viewVars, isDragging, isSelecting, isRotating,
                   lastMousePos, selectionRect, mouseEvents>>

\* the save effect, after a render with a changed collection
SaveEffect ==
    /\ mounted
    /\ saveDue
    /\ saveDue' = FALSE
    /\ storage' = Item(JsonStringify(bookmarks))
    /\ lastEvent' = Event("save", "", <<>>)
    /\ UNCHANGED <<notGesture, viewVars, mounted, isDragging, isSelecting,
                   isRotating, lastMousePos, selectionRect, bookmarks,
                   mouseEvents>>

-----------------------------------------------------------------------------
(* The zoom of the view state in floating point: a Number holds a significand *)
(* of a fixed number of bits, and every operation rounds its exact result to  *)
(* the nearest such number. The zoom is computed from the zoom, the window    *)
(* size and the inputs alone, never from the centre.                          *)

\* bits of the significand (53 in the Numbers of the language)
SignificandBits == 4

\* wheel events are handled while the zoom is between 2^-MinZoomExponent and
\* 2^MaxZoomExponent
MaxZoomExponent == 5

MinZoomExponent == 1

\* bookmarks created
MaxFloatBookmarks == 1

\* the window, and the widths and heights of the selections; each a number
\* of SignificandBits bits
FloatWindow == [width |-> 60, height |-> 40]

FloatSelections == {<<30, 40>>, <<20, 24>>}

RECURSIVE Pow2(_)
Pow2(k) == IF k = 0 THEN 1 ELSE 2 * Pow2(k - 1)

\* the integer nearest to a >= 0, the even one of two that are equally near
RoundHalfEven(a) ==
    LET floor == RFloor(a)
        rest  == RSub(a, RInt(floor))
    IN  IF RLt(rest, R(1, 2)) THEN floor
        ELSE IF RLt(R(1, 2), rest) THEN floor + 1
        ELSE IF floor % 2 = 0 THEN floor ELSE floor + 1

\* the Number nearest to a > 0: a is scaled by a power of two until its
\* integer part has SignificandBits bits, rounded, and scaled back
RECURSIVE ToFloatPositive(_)
ToFloatPositive(a) ==
    IF RLt(a, RInt(Pow2(SignificandBits - 1)))
    THEN RDiv(ToFloatPositive(RMul(a, RInt(2))), RInt(2))
    ELSE IF RLe(RInt(Pow2(SignificandBits)), a)
    THEN RMul(ToFloatPositive(RDiv(a, RInt(2))), RInt(2))
    ELSE RInt(RoundHalfEven(a))

\* the Number nearest to a (the exponent range is not modelled: no overflow
\* to Infinity, no underflow)
ToFloat(a) ==
    IF a[1] = 0 THEN a
    ELSE IF a[1] < 0 THEN RNeg(ToFloatPositive(RNeg(a)))
    ELSE ToFloatPositive(a)

\* + - * / of Numbers
FloatAdd(a, b) == ToFloat(RAdd(a, b))

FloatSub(a, b) == ToFloat(RSub(a, b))

FloatMul(a, b) == ToFloat(RMul(a, b))

FloatDiv(a, b) == ToFloat(RDiv(a, b))

\* newZoom of handleWheel
FloatWheelZoom(zoom, deltaY) == FloatMul(zoom, ToFloat(ZoomFactor(deltaY)))

\* the zoom saveBookmark gives the bookmark of a rectangle
FloatBookmarkZoom(zoom, rectWidth, rectHeight, dims) ==
    LET zoomFactorX == FloatDiv(RInt(dims.width), RInt(rectWidth))
        zoomFactorY == FloatDiv(RInt(dims.height), RInt(rectHeight))
    IN  FloatMul(FloatMul(zoom, RMin(zoomFactorX, zoomFactorY)), ToFloat(R(4, 5)))

\* easeInOutQuad of animate
FloatEase(t) ==
    IF RLt(t, R(1, 2))
    THEN FloatMul(FloatMul(RInt(2), t), t)
    ELSE FloatAdd(RInt(-1), FloatMul(FloatSub(RInt(4), FloatMul(RInt(2), t)), t))

\* currentZoom of animate: start + (end - start) * easedProgress
FloatInterpolate(start, end, easedProgress) ==
    FloatAdd(start, FloatMul(FloatSub(end, start), easedProgress))

\* handleWheel, as far as the zoom goes
FloatWheel(deltaY) ==
    /\ floatZoom' = FloatWheelZoom(floatZoom, deltaY)
    /\ UNCHANGED <<notFloat, floatBookmarks, floatLoop>>

\* handleMouseUp with a selection and the saveBookmark it calls, as far as the
\* zoom goes
FloatSaveBookmark(rectWidth, rectHeight) ==
    /\ floatBookmarks' =
           IF SelectionLargeEnough(rectWidth, rectHeight)
           THEN floatBookmarks \cup
                    {FloatBookmarkZoom(floatZoom, rectWidth, rectHeight, FloatWindow)}
           ELSE floatBookmarks
    /\ UNCHANGED <<notFloat, floatZoom, floatLoop>>

\* animateToBookmark, as far as the zoom goes; a call during an animation is
\* ignored
FloatAnimateToBookmark(zoom) ==
    /\ floatLoop' = IF floatLoop # <<>> THEN floatLoop
                    ELSE <<[start |-> floatZoom, end |-> zoom, frame |-> 0]>>
    /\ UNCHANGED <<notFloat, floatZoom, floatBookmarks>>

\* animate, as far as the zoom goes, called when the given number of frame
\* times has passed since the start; the last frame is the one at which the
\* duration has passed
FloatAnimate(frame) ==
    /\ floatLoop # <<>>
    /\ frame > floatLoop[1].frame
    /\ LET progress == RMin(FloatDiv(RInt(frame * FrameMs), RInt(AnimationDuration)),
                            RInt(1))
           easedProgress == FloatEase(progress)
       IN  /\ floatZoom' = FloatInterpolate(floatLoop[1].start, floatLoop[1].end,
                                            easedProgress)
           /\ floatLoop' = IF RLt(progress, RInt(1))
                           THEN <<[floatLoop[1] EXCEPT !.frame = frame]>>
                           ELSE <<>>
    /\ UNCHANGED <<notFloat, floatBookmarks>>

\* x * x + y * y as the loop of mandelbrot computes it
FloatNorm(x, y) == FloatAdd(FloatMul(x, x), FloatMul(y, y))

\* the while loop of mandelbrot in floating point; the two copies, of the
\* component and of the worker, are the same text
RECURSIVE FloatMandelbrotLoop(_, _, _, _, _, _)
FloatMandelbrotLoop(x, y, iter, cx, cy, maxIter) ==
    IF iter < maxIter /\ RLe(FloatNorm(x, y), RInt(4))
    THEN LET xtemp == FloatAdd(FloatSub(FloatMul(x, x), FloatMul(y, y)), cx)
             ynew  == FloatAdd(FloatMul(FloatMul(RInt(2), x), y), cy)
         IN  FloatMandelbrotLoop(xtemp, ynew, iter + 1, cx, cy, maxIter)
    ELSE iter

\* an evaluator whose orbit starts at c, not at 0
floatMandelbrotFromC(cx, cy, maxIter) ==
    FloatMandelbrotLoop(cx, cy, 0, cx, cy, maxIter)

\* mandelbrot in floating point
floatMandelbrot(cx, cy, maxIter) ==
    FloatMandelbrotLoop(RInt(0), RInt(0), 0, cx, cy, maxIter)

\* the points of the floating-point evaluator: the Numbers nearest to the
\* multiples of 1/8 of absolute value up to FineSpan / 8
FineSpan == 20

FloatCoords == {ToFloat(R(n, 8)) : n \in (-FineSpan)..FineSpan}

\* the initial view, no bookmark, no animation
FloatInit ==
    /\ floatZoom = RInt(1)
    /\ floatBookmarks = {}
    /\ floatLoop = <<>>

FloatIdle == FloatInit

-----------------------------------------------------------------------------
(* Specification of the evaluator: each copy of mandelbrot applied to a point *)

Ran(fn) == \E r \in evalOut : r[1] = fn

EvalInit ==
    /\ evalIn \in [cx : GridCoords, cy : GridCoords, maxIter : 0..MaxIter]
    /\ evalOut = {}

EvalIdle ==
    /\ evalIn = [cx |-> RInt(0), cy |-> RInt(0), maxIter |-> 0]
    /\ evalOut = {}

\* caps 0..MaxInteriorIter, and the cap of the component, are tried on the
\* points whose orbits stay bounded
MaxInteriorIter == 15

\* the origin and the centre of the period-2 bulb
InteriorPoints == {<<RInt(0), RInt(0)>>, <<RInt(-1), RInt(0)>>}

InteriorInit ==
    /\ evalIn \in {[cx |-> c[1], cy |-> c[2], maxIter |-> n] :
                       c \in InteriorPoints, n \in 0..MaxInteriorIter \cup {CpuMaxIter}}
    /\ evalOut = {}

\* the component evaluates the point
CallMandelbrot ==
    /\ ~Ran("main")
    /\ evalOut' = evalOut \cup
           {<<"main", mandelbrot(evalIn.cx, evalIn.cy, evalIn.maxIter)>>}
    /\ UNCHANGED <<evalIn, notEval>>

\* the worker evaluates the point
CallWorkerMandelbrot ==
    /\ ~Ran("worker")
    /\ evalOut' = evalOut \cup
           {<<"worker", workerMandelbrot(evalIn.cx, evalIn.cy, evalIn.maxIter)>>}
    /\ UNCHANGED <<evalIn, notEval>>

EscapeInit ==
    /\ evalIn \in [cx : FloatCoords, cy : FloatCoords, maxIter : 0..MaxIter]
    /\ evalOut = {}

\* the component evaluates the point, in floating point
CallFloatMandelbrot ==
    /\ ~Ran("main")
    /\ evalOut' = evalOut \cup
           {<<"main", floatMandelbrot(evalIn.cx, evalIn.cy, evalIn.maxIter)>>}
    /\ UNCHANGED <<evalIn, notEval>>

\* the worker evaluates the point, in floating point
CallFloatWorkerMandelbrot ==
    /\ ~Ran("worker")
    /\ evalOut' = evalOut \cup
           {<<"worker", floatMandelbrot(evalIn.cx, evalIn.cy, evalIn.maxIter)>>}
    /\ UNCHANGED <<evalIn, notEval>>

-----------------------------------------------------------------------------
(* Specification of the colour mappers: each render path shading a pixel *)

Shaded(path) == \E r \in colOut : r[1] = path

ColInit ==
    /\ colIn \in ShadeInputs
    /\ colOut = {}

ColIdle ==
    /\ colIn = [iter |-> 0, maxIterations |-> 0]
    /\ colOut = {}

\* every iteration count under every cap up to the cap of the component
SentinelInit ==
    /\ colIn \in {c \in [iter : 0..CpuMaxIter, maxIterations : 0..CpuMaxIter] :
                     c.iter <= c.maxIterations}
    /\ colOut = {}

\* the worker shades a pixel of iteration count iter under the cap maxIterations
WorkerShade ==
    /\ ~Shaded("worker")
    /\ colOut' = colOut \cup
           {<<"worker", WorkerColor(colIn.iter, colIn.maxIterations)>>}
    /\ UNCHANGED <<colIn, notCol>>

\* renderMandelbrot shades a pixel of iteration count iter
CpuShade ==
    /\ ~Shaded("cpu")
    /\ colOut' = colOut \cup {<<"cpu", CpuColor(colIn.iter)>>}
    /\ UNCHANGED <<colIn, notCol>>

\* generateMandelbrotHeightMap shades a vertex of iteration count iter
HeightShade ==
    /\ ~Shaded("height")
    /\ colOut' = colOut \cup {<<"height", HeightMapVertex(colIn.iter)>>}
    /\ UNCHANGED <<colIn, notCol>>

-----------------------------------------------------------------------------
(* Specification of the worker: a tile of a frame, and the frame as one tile *)

WkRan(which) == \E r \in wkOut : r[1] = which

WkInit ==
    /\ wkIn \in {m \in WorkerInputs : m.data.endY <= m.data.height}
    /\ wkOut = {}

WkIdle ==
    /\ wkIn = [type |-> "none"]
    /\ wkOut = {}

\* message types other than 'compute'
OtherTypes == {"result", "init"}

\* a message of any type, with the rows of a tile of the frame
MessageInit ==
    /\ \E m \in WorkerInputs :
           /\ m.data.endY <= m.data.height
           /\ wkIn \in {m} \cup {[m EXCEPT !.type = t] : t \in OtherTypes}
    /\ wkOut = {}

\* the same frame as the single tile [0, height)
FullMessage(msg) ==
    [msg EXCEPT !.data.startY = 0, !.data.endY = msg.data.height]

\* the worker handles the message of the tile
WorkerHandleTile ==
    /\ ~WkRan("tile")
    /\ wkOut' = wkOut \cup {<<"tile", WorkerOnMessage(wkIn)>>}
    /\ UNCHANGED <<wkIn, notWk>>

\* a worker handles the message of the whole frame
WorkerHandleFull ==
    /\ ~WkRan("full")
    /\ wkOut' = wkOut \cup {<<"full", WorkerOnMessage(FullMessage(wkIn))>>}
    /\ UNCHANGED <<wkIn, notWk>>

-----------------------------------------------------------------------------
(* Specification of the tiled renderer *)

TileInit ==
    /\ canvas \in Canvases
    /\ generation = 0
    /\ frameView = InitialView
    /\ dispatched = <<>>
    /\ inbox = {}
    /\ outbox = {}
    /\ failed = {}
    /\ received = <<>>
    /\ pending = {}
    /\ frameBuffer = BlankFrame(canvas)
    /\ frameGen = 0
    /\ frameSources = {}
    /\ discarded = {}

TileIdle ==
    /\ canvas = [width |-> 1, height |-> 0, workerCount |-> 1, maxIterations |-> 1]
    /\ generation = 0
    /\ frameView = InitialView
    /\ dispatched = <<>>
    /\ inbox = {}
    /\ outbox = {}
    /\ failed = {}
    /\ received = <<>>
    /\ pending = {}
    /\ frameBuffer = <<>>
    /\ frameGen = 0
    /\ frameSources = {}
    /\ discarded = {}

-----------------------------------------------------------------------------
(* Specification of the view-state controller *)

\* the view state of the first render, with a window size
ViewWith(dims) ==
    /\ dimensions = dims
    /\ viewState = InitialView
    /\ isAnimating = FALSE
    /\ pendingView = <<>>
    /\ pendingAnimating = <<>>
    /\ loops = {}
    /\ clock = 0
    /\ zooms = 0
    /\ calls = 0
    /\ lastCall = [bookmark |-> InitialView, outcome |-> "none"]
    /\ wheelLog = <<>>

\* the component has rendered with the window size; no event has been handled
ViewInit == \E dims \in WindowSizes : ViewWith(dims)

ViewIdle == ViewWith([width |-> 0, height |-> 0])

\* bookmarks of an earlier session
Stored(n) ==
    [id        |-> ToString(0 - n * FrameMs),
     name      |-> "Bookmark " \o ToString(n),
     centerX   |-> RInt(0 - n),
     centerY   |-> RInt(0),
     zoom      |-> RInt(2 * n),
     timestamp |-> 0 - n * FrameMs]

\* a record that lacks the view
Partial == [id |-> "partial", name |-> "Bookmark 2"]

\* what localStorage holds when the component mounts: nothing, two
\* bookmarks, the two around a record that lacks the view, and the two around
\* an entry that is no JSON
StoredItems ==
    {NoItem,
     Item(JsonStringify(<<Stored(1), Stored(2)>>)),
     Item(JsonStringify(<<Stored(1), Partial, Stored(2)>>)),
     Item(<<[syntaxOk |-> TRUE, value |-> Stored(1)],
            [syntaxOk |-> FALSE, value |-> Partial],
            [syntaxOk |-> TRUE, value |-> Stored(2)]>>)}

\* the first render has measured the window; its other effects have not run
BookInit ==
    /\ mounted = FALSE
    /\ isDragging = FALSE
    /\ isSelecting = FALSE
    /\ isRotating = FALSE
    /\ lastMousePos = <<0, 0>>
    /\ selectionRect = <<>>
    /\ bookmarks = <<>>
    /\ storage \in StoredItems
    /\ saveDue = FALSE
    /\ lastEvent = Event("none", "", <<>>)
    /\ mouseEvents = 0

BookIdle ==
    /\ mounted = TRUE
    /\ isDragging = FALSE
    /\ isSelecting = FALSE
    /\ isRotating = FALSE
    /\ lastMousePos = <<0, 0>>
    /\ selectionRect = <<>>
    /\ bookmarks = <<>>
    /\ storage = Item(<<>>)
    /\ saveDue = FALSE
    /\ lastEvent = Event("none", "", <<>>)
    /\ mouseEvents = 0

-----------------------------------------------------------------------------
(* Specification of the partition: a frame height split among the workers *)

\* frame heights partitioned
MaxPartHeight == 12

\* worker counts partitioned for
MaxPartWorkers == 8

PartInit ==
    /\ partIn \in [height : 0..MaxPartHeight, workerCount : 1..MaxPartWorkers]
    /\ partOut = <<>>

PartIdle ==
    /\ partIn = [height |-> 0, workerCount |-> 1]
    /\ partOut = <<>>

\* the scheduler partitions the rows of a frame
PartitionFrame ==
    /\ partOut = <<>>
    /\ partOut' = Partition(partIn.height, partIn.workerCount)
    /\ UNCHANGED <<notPart, partIn>>

-----------------------------------------------------------------------------
(* Specification of the render path: initWebGPU, its failures, and the path  *)
(* renderFractal takes for each frame                                        *)

\* resizes and mode switches handled
MaxUiEvents == 3

\* window sizes a resize reports; a hidden window has none
DimensionChoices == WindowSizes \cup {[width |-> 0, height |-> 0]}

\* the exits of initWebGPU that report the GPU path as unavailable
Unavailable == {"noGpu", "noAdapter", "noContext", "exception"}

\* a renderFractal that draws nothing until initWebGPU has settled
RenderPathAwaitsInit(mode3D, dims, renderer, supports, ctx2d) ==
    IF mode3D THEN "none"
    ELSE IF dims.width = 0 \/ dims.height = 0 THEN "none"
    ELSE IF supports = "null" THEN "none"
    ELSE IF renderer # 0 /\ supports = "true" THEN "gpu"
    ELSE IF ~ctx2d THEN "none"
    ELSE "cpu"

\* what renderFractal draws with: the canvas is mounted, ctx2d tells whether
\* canvas.getContext('2d') returns a context
RenderPath(mode3D, dims, renderer, supports, ctx2d) ==
    IF mode3D THEN "none"
    ELSE IF dims.width = 0 \/ dims.height = 0 THEN "none"
    ELSE IF renderer # 0 /\ supports = "true" THEN "gpu"
    ELSE IF ~ctx2d THEN "none"
    ELSE "cpu"

\* supportsWebGPU after an initWebGPU call has left by the given exit
SupportsAfter(outcome, supports) ==
    IF outcome \in Unavailable THEN "false"
    ELSE IF outcome = "ready" THEN "true"
    ELSE supports

\* the renderer setWebgpuRenderer receives from call i
RendererAfter(outcome, i, renderer) ==
    IF outcome \in Unavailable THEN 0
    ELSE IF outcome = "ready" THEN i
    ELSE renderer

\* the record of a renderFractal call
FrameOf(mode3D, dims, renderer, supports, ctx2d) ==
    [is3D |-> mode3D, dimensions |-> dims, webgpuRenderer |-> renderer,
     supportsWebGPU |-> supports, ctx2d |-> ctx2d,
     path |-> RenderPath(mode3D, dims, renderer, supports, ctx2d)]

\* the render that follows a state change, and its effects: initWebGPU is
\* called in 2D with a window size while supportsWebGPU is null, and leaves at
\* once when there is no navigator.gpu, which takes a second render; then
\* renderFractal runs
Rendered(mode3D, dims, renderer, supports, stages, ctx2d) ==
    LET starts == dims.width > 0 /\ dims.height > 0 /\ ~mode3D /\ supports = "null"
        leaves == starts /\ ~navigatorGpu
        call   == Len(stages) + 1
    IN  /\ is3D' = mode3D
        /\ dimensions' = dims
        /\ inits' = IF starts
                    THEN Append(stages, IF navigatorGpu THEN "adapter" ELSE "noGpu")
                    ELSE stages
        /\ supportsWebGPU' = IF leaves THEN SupportsAfter("noGpu", supports)
                             ELSE supports
        /\ webgpuRenderer' = IF leaves THEN RendererAfter("noGpu", call, renderer)
                             ELSE renderer
        /\ frames' = frames \cup {FrameOf(mode3D, dims, renderer, supports, ctx2d)}
                \cup (IF leaves
                      THEN {FrameOf(mode3D, dims, RendererAfter("noGpu", call, renderer),
                                    SupportsAfter("noGpu", supports), ctx2d)}
                      ELSE {})

\* updateDimensions: the mount and every resize set the window size
updateDimensions(size) ==
    /\ uiEvents' = uiEvents + 1
    /\ \E ctx2d \in BOOLEAN :
           Rendered(is3D, size, webgpuRenderer, supportsWebGPU, inits, ctx2d)
    /\ UNCHANGED <<notRender, navigatorGpu>>

\* the 2D and 3D buttons
setIs3D(value) ==
    /\ value # is3D
    /\ uiEvents' = uiEvents + 1
    /\ \E ctx2d \in BOOLEAN :
           Rendered(value, dimensions, webgpuRenderer, supportsWebGPU, inits, ctx2d)
    /\ UNCHANGED <<notRender, navigatorGpu>>

\* call i of initWebGPU goes on from an await and leaves by an exit, or
\* reaches the next await
InitSettles(i, outcome) ==
    /\ inits' = [inits EXCEPT ![i] = outcome]
    /\ IF outcome = "device"
       THEN UNCHANGED <<is3D, dimensions, supportsWebGPU, webgpuRenderer, frames>>
       ELSE \E ctx2d \in BOOLEAN :
               /\ supportsWebGPU' = SupportsAfter(outcome, supportsWebGPU)
               /\ webgpuRenderer' = RendererAfter(outcome, i, webgpuRenderer)
               /\ frames' = frames \cup
                      {FrameOf(is3D, dimensions, webgpuRenderer', supportsWebGPU',
                               ctx2d)}
               /\ UNCHANGED <<is3D, dimensions>>
    /\ UNCHANGED <<notRender, navigatorGpu, uiEvents>>

\* navigator.gpu.requestAdapter() settles: an adapter, null, or a rejection
requestAdapterSettles(i) ==
    /\ inits[i] = "adapter"
    /\ \E outcome \in {"device", "noAdapter", "exception"} : InitSettles(i, outcome)

\* adapter.requestDevice() settles: a rejection, or a device, and then no
\* webgpu context, an exception on the way, or the renderer
requestDeviceSettles(i) ==
    /\ inits[i] = "device"
    /\ \E outcome \in {"exception", "noContext", "ready"} : InitSettles(i, outcome)

GpuInit ==
    /\ is3D = TRUE
    /\ navigatorGpu \in BOOLEAN
    /\ webgpuRenderer = 0
    /\ supportsWebGPU = "null"
    /\ inits = <<>>
    /\ frames = {}
    /\ uiEvents = 0

GpuIdle ==
    /\ is3D = TRUE
    /\ navigatorGpu = FALSE
    /\ webgpuRenderer = 0
    /\ supportsWebGPU = "null"
    /\ inits = <<>>
    /\ frames = {}
    /\ uiEvents = 0

-----------------------------------------------------------------------------
(* Specification of the coordinate mappers: each render path mapping the same *)
(* relative position of the picture                                           *)

\* vertices a side of the height-map mesh
MeshResolution == 4

\* window sizes, square, landscape and portrait, multiples of MeshResolution
MapWindows ==
    {[width |-> 2 * MeshResolution, height |-> 2 * MeshResolution],
     [width |-> 8 * MeshResolution, height |-> 7 * MeshResolution],
     [width |-> MeshResolution, height |-> 2 * MeshResolution]}

MapViews == {InitialView, [zoom |-> RInt(2), centerX |-> RInt(0), centerY |-> R(1, 2)]}

Mapped(path) == \E r \in mapOut : r[1] = path

\* the relative position is that of mesh vertex (x, y)
MapInit ==
    /\ mapIn \in [dimensions : MapWindows, view : MapViews,
                  x : 0..(MeshResolution - 1), y : 0..(MeshResolution - 1)]
    /\ mapOut = {}

MapIdle ==
    /\ mapIn = [dimensions |-> [width |-> 0, height |-> 0], view |-> InitialView,
                x |-> 0, y |-> 0]
    /\ mapOut = {}

\* the pixel at the relative position of the vertex
MapPixel ==
    [px |-> (mapIn.x * mapIn.dimensions.width) \div MeshResolution,
     py |-> (mapIn.y * mapIn.dimensions.height) \div MeshResolution]

\* renderMandelbrot maps the pixel
CpuMap ==
    /\ ~Mapped("cpu")
    /\ mapOut' = mapOut \cup
           {<<"cpu", PixelToComplex(MapPixel.px, MapPixel.py,
                                    mapIn.dimensions.width,
                                    mapIn.dimensions.height, mapIn.view)>>}
    /\ UNCHANGED <<mapIn, notMap>>

\* the worker maps the pixel
WorkerMap ==
    /\ ~Mapped("worker")
    /\ mapOut' = mapOut \cup
           {<<"worker", WorkerPoint(MapPixel.px, MapPixel.py,
                                    [width   |-> mapIn.dimensions.width,
                                     height  |-> mapIn.dimensions.height,
                                     centerX |-> mapIn.view.centerX,
                                     centerY |-> mapIn.view.centerY,
                                     zoom    |-> mapIn.view.zoom])>>}
    /\ UNCHANGED <<mapIn, notMap>>

\* the shader maps the fragment: uv.x runs left to right and uv.y bottom to top
ShaderMap ==
    /\ ~Mapped("shader")
    /\ mapOut' = mapOut \cup
           {<<"shader", ShaderPoint(<<R(mapIn.x, MeshResolution),
                                      RSub(RInt(1), R(mapIn.y, MeshResolution))>>,
                                    [screenWidth  |-> mapIn.dimensions.width,
                                     screenHeight |-> mapIn.dimensions.height,
                                     centerX |-> mapIn.view.centerX,
                                     centerY |-> mapIn.view.centerY,
                                     zoom    |-> mapIn.view.zoom])>>}
    /\ UNCHANGED <<mapIn, notMap>>

\* generateMandelbrotHeightMap maps the vertex
HeightMap ==
    /\ ~Mapped("height")
    /\ mapOut' = mapOut \cup
           {<<"height", HeightMapPoint(mapIn.x, mapIn.y, MeshResolution,
                                       mapIn.view)>>}
    /\ UNCHANGED <<mapIn, notMap>>

-----------------------------------------------------------------------------
(* The specifications *)

EvalNext ==
    \/ CallMandelbrot
    \/ CallWorkerMandelbrot

InitEval == EvalInit /\ ColIdle /\ WkIdle /\ TileIdle /\ ViewIdle /\ PartIdle /\ MapIdle /\ GpuIdle /\ BookIdle /\ FloatIdle

SpecEval == InitEval /\ [][EvalNext]_vars

InitInterior == InteriorInit /\ ColIdle /\ WkIdle /\ TileIdle /\ ViewIdle /\ PartIdle /\ MapIdle /\ GpuIdle /\ BookIdle /\ FloatIdle

SpecInterior == InitInterior /\ [][EvalNext]_vars

ColNext ==
    \/ WorkerShade
    \/ CpuShade
    \/ HeightShade

InitColor == ColInit /\ EvalIdle /\ WkIdle /\ TileIdle /\ ViewIdle /\ PartIdle /\ MapIdle /\ GpuIdle /\ BookIdle /\ FloatIdle

SpecColor == InitColor /\ [][ColNext]_vars

InitSentinel == SentinelInit /\ EvalIdle /\ WkIdle /\ TileIdle /\ ViewIdle /\ PartIdle /\ MapIdle /\ GpuIdle /\ BookIdle /\ FloatIdle

SpecSentinel == InitSentinel /\ [][ColNext]_vars

WkNext ==
    \/ WorkerHandleTile
    \/ WorkerHandleFull

InitWorker == WkInit /\ EvalIdle /\ ColIdle /\ TileIdle /\ ViewIdle /\ PartIdle /\ MapIdle /\ GpuIdle /\ BookIdle /\ FloatIdle

SpecWorker == InitWorker /\ [][WkNext]_vars

InitMessage == MessageInit /\ EvalIdle /\ ColIdle /\ TileIdle /\ ViewIdle /\ PartIdle /\ MapIdle /\ GpuIdle /\ BookIdle /\ FloatIdle

SpecMessage == InitMessage /\ [][WkNext]_vars

TileNext ==
    \/ \E view \in TileViews : Render(view)
    \/ \E m \in inbox : WorkerCompute(m)
    \/ \E m \in inbox : WorkerFail(m)
    \/ \E o \in outbox : OnResult(o)
    \/ \E o \in outbox : OnError(o)
    \/ Merge

InitTile == TileInit /\ EvalIdle /\ ColIdle /\ WkIdle /\ ViewIdle /\ PartIdle /\ MapIdle /\ GpuIdle /\ BookIdle /\ FloatIdle

SpecTile == InitTile /\ [][TileNext]_vars

WheelNext ==
    \/ /\ zooms < MaxZooms
       /\ \E m \in MousePositions, deltaY \in DeltaYs :
              handleWheel(m[1], m[2], deltaY)
    \/ Commit

InitWheel == ViewInit /\ EvalIdle /\ ColIdle /\ WkIdle /\ TileIdle /\ PartIdle /\ MapIdle /\ GpuIdle /\ BookIdle /\ FloatIdle

SpecWheel == InitWheel /\ [][WheelNext]_vars

AnimationNext ==
    \/ \E bookmark \in BookmarkViews : animateToBookmark(bookmark)
    \/ \E loop \in loops : animate(loop)
    \/ Commit
    \/ Frame

InitAnimation == ViewInit /\ EvalIdle /\ ColIdle /\ WkIdle /\ TileIdle /\ PartIdle /\ MapIdle /\ GpuIdle /\ BookIdle /\ FloatIdle

SpecAnimation == InitAnimation /\ [][AnimationNext]_vars

\* animations under a wall clock that can be set back
ClockNext ==
    \/ \E bookmark \in BookmarkViews : animateToBookmark(bookmark)
    \/ \E loop \in loops : animate(loop)
    \/ Commit
    \/ Frame
    \/ \E to \in 0..MaxClock : ClockSetBack(to)

InitClock == ViewInit /\ EvalIdle /\ ColIdle /\ WkIdle /\ TileIdle /\ PartIdle /\ MapIdle /\ GpuIdle /\ BookIdle /\ FloatIdle

SpecClock == InitClock /\ [][ClockNext]_vars

PartNext == PartitionFrame

InitPartition ==
    PartInit /\ EvalIdle /\ ColIdle /\ WkIdle /\ TileIdle /\ ViewIdle /\ MapIdle /\ GpuIdle /\ BookIdle /\ FloatIdle

SpecPartition == InitPartition /\ [][PartNext]_vars

MapNext ==
    \/ CpuMap
    \/ WorkerMap
    \/ ShaderMap
    \/ HeightMap

InitMapper ==
    MapInit /\ EvalIdle /\ ColIdle /\ WkIdle /\ TileIdle /\ ViewIdle /\ PartIdle /\ GpuIdle /\ BookIdle /\ FloatIdle

SpecMapper == InitMapper /\ [][MapNext]_vars

RenderNext ==
    \/ /\ uiEvents < MaxUiEvents
       /\ \E size \in DimensionChoices : updateDimensions(size)
    \/ /\ uiEvents < MaxUiEvents
       /\ \E value \in BOOLEAN : setIs3D(value)
    \/ \E i \in DOMAIN inits : requestAdapterSettles(i)
    \/ \E i \in DOMAIN inits : requestDeviceSettles(i)

InitRender ==
    GpuInit /\ EvalIdle /\ ColIdle /\ WkIdle /\ TileIdle /\ ViewIdle /\ PartIdle /\ MapIdle /\ BookIdle /\ FloatIdle

SpecRender == InitRender /\ [][RenderNext]_vars

BookmarkNext ==
    \/ Mount
    \/ /\ mouseEvents < MaxMouseEvents
       /\ \E p \in SelectionPoints : handleMouseDown(TRUE, 0, p[1], p[2])
    \/ /\ mouseEvents < MaxMouseEvents
       /\ \E p \in SelectionPoints : handleMouseMove(p[1], p[2])
    \/ /\ mouseEvents < MaxMouseEvents
       /\ handleMouseUp
    \/ /\ mouseEvents < MaxMouseEvents
       /\ \E id \in {bookmark.id : bookmark \in Range(bookmarks)} \cup {"none"} :
              deleteBookmark(id)
    \/ /\ mounted
       /\ uiEvents < MaxSwitches
       /\ \E value \in BOOLEAN : setIs3D(value)
    \/ SaveEffect
    \/ /\ clock < MaxTicks
       /\ Frame

InitBookmarks ==
    BookInit /\ ViewWith(BookmarkWindow) /\ EvalIdle /\ ColIdle /\ WkIdle /\ TileIdle /\ PartIdle /\ MapIdle /\ GpuIdle /\ FloatIdle

SpecBookmarks == InitBookmarks /\ [][BookmarkNext]_vars

\* the bookmark collection when the mount effects can run once or twice
MountNext ==
    \/ BookmarkNext
    \/ MountTwice

SpecMount == InitBookmarks /\ [][MountNext]_vars

\* wheel and mouse events handled beside an animation
MaxGestures == 2

\* the window of the gesture specification
GestureWindow == [width |-> 14, height |-> 7]

\* cursor position of the wheel events beside an animation
WheelPoint == <<9, 5>>

\* where the button is pressed for a drag, and where the cursor moves to
DragStart == <<0, 0>>

DragPoints == {<<7, 0>>, <<3, 4>>}

\* the component is mounted with no stored bookmarks and shows the 2D view
GestureInit ==
    /\ ViewWith(GestureWindow)
    /\ mounted = TRUE
    /\ isDragging = FALSE
    /\ isSelecting = FALSE
    /\ isRotating = FALSE
    /\ lastMousePos = <<0, 0>>
    /\ selectionRect = <<>>
    /\ bookmarks = <<>>
    /\ storage = Item(<<>>)
    /\ saveDue = FALSE
    /\ lastEvent = Event("none", "", <<>>)
    /\ mouseEvents = 0
    /\ is3D = FALSE
    /\ navigatorGpu = FALSE
    /\ webgpuRenderer = 0
    /\ supportsWebGPU = "false"
    /\ inits = <<>>
    /\ frames = {}
    /\ uiEvents = 0

\* an animation is started while none runs and while the clock of the model
\* leaves it the frames of its duration; wheel events and drags come at any
\* moment of the animation, before, between and after the calls of animate
GestureNext ==
    \/ /\ ~isAnimating
       /\ clock + FramesPerAnimation <= MaxClock
       /\ \E bookmark \in BookmarkViews : animateToBookmark(bookmark)
    \/ \E loop \in loops : animate(loop)
    \/ Commit
    \/ Frame
    \/ /\ isAnimating
       /\ zooms + mouseEvents < MaxGestures
       /\ \E deltaY \in DeltaYs : handleWheel(WheelPoint[1], WheelPoint[2], deltaY)
    \/ /\ isAnimating
       /\ zooms + mouseEvents < MaxGestures
       /\ handleMouseDown(FALSE, 0, DragStart[1], DragStart[2])
    \/ /\ isAnimating
       /\ zooms + mouseEvents < MaxGestures
       /\ \E p \in DragPoints : handleMouseMove(p[1], p[2])
    \/ /\ isAnimating
       /\ zooms + mouseEvents < MaxGestures
       /\ handleMouseUp

InitGesture ==
    GestureInit /\ EvalIdle /\ ColIdle /\ WkIdle /\ TileIdle /\ PartIdle /\ MapIdle /\ FloatIdle

\* the steps of animate, told by what they do to the frame loop: the loop has
\* been ticked for this frame, or has ended
AnimateRuns ==
    \E loop \in loops :
        /\ loop.ticked < clock
        /\ \E last \in BOOLEAN :
               loops' = IF last THEN loops \ {loop}
                        ELSE (loops \ {loop}) \cup {[loop EXCEPT !.ticked = clock]}

\* the steps of Commit, told by what they do to the queues
CommitRuns ==
    /\ pendingView # <<>> \/ pendingAnimating # <<>>
    /\ pendingView' = <<>>
    /\ pendingAnimating' = <<>>

\* the browser keeps calling the animation-frame callbacks and React renders
\* the updates it has queued
SpecGesture ==
    /\ InitGesture
    /\ [][GestureNext]_vars
    /\ WF_vars(Frame)
    /\ WF_loops(AnimateRuns)
    /\ WF_<<pendingView, pendingAnimating>>(CommitRuns)

\* wheel events come between the animations: one that comes during an
\* animation changes a zoom the next call of animate replaces
FloatNext ==
    \/ /\ floatLoop = <<>>
       /\ RLt(floatZoom, RInt(Pow2(MaxZoomExponent)))
       /\ FloatWheel(-1)
    \/ /\ floatLoop = <<>>
       /\ RLt(R(1, Pow2(MinZoomExponent)), floatZoom)
       /\ FloatWheel(1)
    \/ /\ Cardinality(floatBookmarks) < MaxFloatBookmarks
       /\ \E rect \in FloatSelections : FloatSaveBookmark(rect[1], rect[2])
    \/ \E zoom \in floatBookmarks : FloatAnimateToBookmark(zoom)
    \/ \E frame \in 1..FramesPerAnimation : FloatAnimate(frame)

InitFloat ==
    FloatInit /\ EvalIdle /\ ColIdle /\ WkIdle /\ TileIdle /\ ViewIdle /\ PartIdle /\ MapIdle /\ GpuIdle /\ BookIdle

SpecFloat == InitFloat /\ [][FloatNext]_vars

EscapeNext ==
    \/ CallFloatMandelbrot
    \/ CallFloatWorkerMandelbrot

InitEscape == EscapeInit /\ ColIdle /\ WkIdle /\ TileIdle /\ ViewIdle /\ PartIdle /\ MapIdle /\ GpuIdle /\ BookIdle /\ FloatIdle

SpecEscape == InitEscape /\ [][EscapeNext]_vars

\* mouse and wheel events of the pointer specification
MaxPointerEvents == 4

\* clicks on the 2D and 3D buttons there
MaxToggles == 2

\* mouse buttons: the main button and the secondary button
Buttons == {0, 2}

\* positions of the pointer events
PointerPoints == {<<0, 0>>, <<30, 40>>}

\* the component is mounted with no stored bookmarks and shows the 3D view
PointerInit ==
    /\ ViewWith(BookmarkWindow)
    /\ BookIdle
    /\ GpuIdle
    /\ inits = <<>>
    /\ frames = {}
    /\ uiEvents = 0

\* the events of the two views: the wheel listener is handleWheel3D on the 3D
\* mount point and handleWheel on the canvas; mouse-up and mouse-leave are
\* bound to handleMouseUp
PointerNext ==
    \/ /\ mouseEvents < MaxPointerEvents
       /\ \E shiftKey \in BOOLEAN, button \in Buttons, p \in PointerPoints :
              handleMouseDown(shiftKey, button, p[1], p[2])
    \/ /\ mouseEvents < MaxPointerEvents
       /\ \E p \in PointerPoints : handleMouseMove(p[1], p[2])
    \/ /\ mouseEvents < MaxPointerEvents
       /\ handleMouseUp
    \/ /\ mouseEvents < MaxPointerEvents
       /\ is3D
       /\ \E deltaY \in DeltaYs : handleWheel3D(deltaY)
    \/ /\ zooms < 1
       /\ ~is3D
       /\ handleWheel(WheelPoint[1], WheelPoint[2], -1)
    \/ /\ uiEvents < MaxToggles
       /\ \E value \in BOOLEAN : setIs3D(value)
    \/ Commit
    \/ SaveEffect

InitPointer == PointerInit /\ EvalIdle /\ ColIdle /\ WkIdle /\ TileIdle /\ PartIdle /\ MapIdle /\ FloatIdle

SpecPointer == InitPointer /\ [][PointerNext]_vars

-----------------------------------------------------------------------------
(* Claims about the escape-time evaluator *)

\* z_k of the orbit z_0 = 0, z_(k+1) = z_k^2 + c, as a pair <<re, im>>
RECURSIVE OrbitZ(_, _, _)
OrbitZ(k, cx, cy) ==
    IF k = 0 THEN <<RInt(0), RInt(0)>>
    ELSE LET z == OrbitZ(k - 1, cx, cy)
         IN  <<RAdd(RSub(RMul(z[1], z[1]), RMul(z[2], z[2])), cx),
               RAdd(RMul(RInt(2), RMul(z[1], z[2])), cy)>>

\* |z_k|^2 > 4
Escaped(k, cx, cy) ==
    LET z == OrbitZ(k, cx, cy)
    IN  RLt(RInt(4), RAdd(RMul(z[1], z[1]), RMul(z[2], z[2])))

\* r is the least k < maxIter with |z_k|^2 > 4, or maxIter when there is none
LeastEscape(r, cx, cy, maxIter) ==
    /\ r \in 0..maxIter
    /\ \A k \in 0..(r - 1) : ~Escaped(k, cx, cy)
    /\ r < maxIter => Escaped(r, cx, cy)

C22_InteriorReturnsMaxIter ==
    \A r \in evalOut :
        <<evalIn.cx, evalIn.cy>> \in InteriorPoints =>
            /\ r[2] = evalIn.maxIter
            /\ evalIn.maxIter = CpuMaxIter => CpuColor(r[2]) = <<0, 0, 0, 255>>

\* both copies have run on the centre of the period-2 bulb with the cap 100
C22_Witness ==
    /\ Ran("main") /\ Ran("worker")
    /\ evalIn.cx = RInt(-1) /\ evalIn.cy = RInt(0)
    /\ evalIn.maxIter = 100
    /\ \A r \in evalOut : r[2] = 100

-----------------------------------------------------------------------------
(* Claims about the tile worker and the tile scheduler *)

\* the compute messages sent for frame g, in sending order
TilesOf(g) == SelectSeq(dispatched, LAMBDA d : d.worker[1] = g)

\* the rows the worker of a dispatched tile visits
RowsOf(d) == WorkerRows(d.msg.data.startY, d.msg.data.endY)

\* C1: for every height and worker count, also with more workers than rows,
\* the tiles of a frame are contiguous row ranges from 0 to height, and every
\* row of [0, height) is visited by the worker of exactly one tile.
C1_TilesCoverFrame ==
    \A g \in 1..generation :
        LET T == TilesOf(g)
        IN  /\ T[1].msg.data.startY = 0
            /\ T[Len(T)].msg.data.endY = canvas.height
            /\ \A i \in 1..(Len(T) - 1) :
                   T[i].msg.data.endY = T[i + 1].msg.data.startY
            /\ \A i \in DOMAIN T : RowsOf(T[i]) \subseteq 0..(canvas.height - 1)
            /\ \A row \in 0..(canvas.height - 1) :
                   Cardinality({i \in DOMAIN T : row \in RowsOf(T[i])}) = 1

\* a frame was dispatched to more workers than it has rows
C1_Witness ==
    /\ generation >= 1
    /\ canvas.height >= 1
    /\ canvas.workerCount > canvas.height
    /\ Len(TilesOf(generation)) = canvas.workerCount

\* C2: the bytes the worker writes for a pixel do not depend on the tile: the
\* buffer of a tile [startY, endY) has (endY - startY) * width * 4 bytes and
\* equals, byte for byte, the part of the buffer of the single tile
\* [0, height) that starts at the row offset of startY.
C2_TileBytesIndependentOfTile ==
    \A t \in wkOut, f \in wkOut :
        (t[1] = "tile" /\ f[1] = "full") =>
            \A rt \in t[2], rf \in f[2] :
                LET d      == wkIn.data
                    offset == d.startY * d.width * 4
                IN  /\ Len(rt.data.imageData) = (d.endY - d.startY) * d.width * 4
                    /\ Len(rf.data.imageData) = d.height * d.width * 4
                    /\ \A i \in 1..Len(rt.data.imageData) :
                           rt.data.imageData[i] = rf.data.imageData[offset + i]

\* the second row of a frame two pixels wide was computed as a tile and as
\* part of the whole frame, and its pixels are not all alike
C2_Witness ==
    /\ WkRan("tile") /\ WkRan("full")
    /\ wkIn.data.startY = 1 /\ wkIn.data.endY = 2
    /\ wkIn.data.width = 2 /\ wkIn.data.height = 2
    /\ \E t \in wkOut : t[1] = "tile" /\
           \E rt \in t[2] : SubSeq(rt.data.imageData, 1, 4) #
                            SubSeq(rt.data.imageData, 5, 8)

\* the message a handler call of wkOut was given
HandledMessage(r) == IF r[1] = "tile" THEN wkIn ELSE FullMessage(wkIn)

\* C25: for a 'compute' message with startY <= endY the worker posts exactly
\* one 'result' message that echoes startY and endY, with a buffer of
\* (endY - startY) * width * 4 bytes in which every pixel of the rows
\* [startY, endY), over all columns, has a slot of its own and alpha 255; a
\* message of any other type gets no response.
C25_OneResultPerCompute ==
    \A r \in wkOut :
        LET msg    == HandledMessage(r)
            d      == msg.data
            len    == (d.endY - d.startY) * d.width * 4
            pixels == WorkerRows(d.startY, d.endY) \X (0..(d.width - 1))
            index(v) == PixelIndex(v[2], v[1], d.startY, d.width)
        IN  IF msg.type = "compute"
            THEN /\ Cardinality(r[2]) = 1
                 /\ \A post \in r[2] :
                        /\ post.type = "result"
                        /\ post.data.startY = d.startY
                        /\ post.data.endY = d.endY
                        /\ Len(post.data.imageData) = len
                        /\ \A v \in pixels :
                               /\ index(v) \in 0..(len - 4)
                               /\ post.data.imageData[index(v) + 4] = 255
                 /\ \A u \in pixels, v \in pixels : u # v => index(u) # index(v)
                 /\ Cardinality(pixels) * 4 = len
            ELSE r[2] = {}

\* the worker has handled a compute message of the second row of a frame
\* two pixels wide, and the same frame as one tile
C25_Witness ==
    /\ WkRan("tile") /\ WkRan("full")
    /\ wkIn.type = "compute"
    /\ wkIn.data.startY = 1 /\ wkIn.data.endY = 2
    /\ wkIn.data.width = 2
    /\ \E r \in wkOut : r[1] = "tile" /\
           \E post \in r[2] : Len(post.data.imageData) = 8 /\ post.data.startY = 1

\* the frame of the current request computed as the single tile [0, height)
SerialFrame ==
    WorkerBuffer(ComputeMessage([rowStart |-> 0, rowEnd |-> canvas.height],
                                canvas, frameView).data)

\* the frame has been merged for the current request
Merged == generation > 0 /\ frameGen = generation

\* a worker of the current frame threw
FailedNow == \E w \in failed : w[1] = generation

\* C3: whatever the order in which the results of a frame arrive, the merged
\* frame is the same: the frame of the single-tile evaluation.
C3_MergeIndependentOfArrivalOrder ==
    (Merged /\ ~FailedNow) => frameBuffer = SerialFrame

\* two results arrived in the reverse of the dispatch order and were merged
C3_Witness ==
    /\ Merged /\ ~FailedNow
    /\ canvas.height = 2 /\ canvas.width = 2
    /\ Len(received) = 2
    /\ received[1].worker[2] = 2 /\ received[2].worker[2] = 1

\* C4: the frame buffer changes only in a merge step of the scheduler, taken
\* when every tile of the frame has reported; no tile of the frame the buffer
\* holds is in flight, and a step of a worker leaves the buffer alone.
C4_MergeOnlyAfterAllReported ==
    /\ [](\A w \in InFlight : frameGen = 0 \/ w[1] # frameGen)
    /\ [][(frameBuffer' # frameBuffer \/ frameGen' # frameGen) =>
             /\ pending = {}
             /\ \A w \in InFlight : w[1] # generation
             /\ frameGen' = generation
             /\ UNCHANGED <<inbox, outbox>>]_vars

\* a frame of two tiles has been merged after both reported
C4_Witness ==
    /\ Merged
    /\ canvas.workerCount = 2 /\ canvas.height = 2
    /\ Cardinality(frameSources) = 2
    /\ pending = {}

\* C5: a result of an earlier frame that arrives after a new view state was
\* set is dropped: the results kept for the merge, and the results the buffer
\* was merged from, are results of the frame they belong to.
C5_StaleResultsDiscarded ==
    /\ \A i \in DOMAIN received : received[i].worker[1] = generation
    /\ \A w \in frameSources : w[1] = frameGen
    /\ \A w \in discarded : w \notin frameSources

\* a result of the first frame arrived during the second and the second frame
\* has been merged
C5_Witness ==
    /\ Merged
    /\ generation = 2
    /\ canvas.height = 2
    /\ \E w \in discarded : w[1] = 1

\* the rows of the tiles of the current frame whose worker threw
FailedRows ==
    UNION {RowsOf(d) : d \in {x \in Range(TilesOf(generation)) : x.worker \in failed}}

\* C6: when a tile fails the frame is still merged: the rows of the failed
\* tile are zero, the rows of the other tiles are those of the single-tile
\* evaluation, and no tile gets a second compute message.
C6_FailedTileLeftBlank ==
    /\ \A i, j \in DOMAIN dispatched :
           dispatched[i].worker = dispatched[j].worker => i = j
    /\ \A g \in 1..generation : Len(TilesOf(g)) = canvas.workerCount
    /\ (Merged /\ FailedNow) =>
           frameBuffer =
               [k \in 1..(canvas.width * canvas.height * 4) |->
                   IF ((k - 1) \div (canvas.width * 4)) \in FailedRows
                   THEN 0 ELSE SerialFrame[k]]

\* a frame of two rows was merged after the worker of one row threw
C6_Witness ==
    /\ Merged /\ FailedNow
    /\ canvas.height = 2 /\ canvas.workerCount = 2
    /\ Cardinality(frameSources) = 1
    /\ \E k \in DOMAIN frameBuffer : frameBuffer[k] # 0

\* the number of rows of a tile
RowCount(tile) == tile.rowEnd - tile.rowStart

\* C20: the partition of [0, height) into workerCount row ranges is as even
\* as possible: the row counts of any two tiles differ by at most 1.
C20_PartitionEven ==
    \A i, j \in DOMAIN partOut :
        RowCount(partOut[i]) - RowCount(partOut[j]) <= 1

\* a height that is no multiple of the worker count was partitioned, with
\* more than two workers and more rows than workers
C20_Witness ==
    /\ partOut # <<>>
    /\ partIn.workerCount > 2
    /\ partIn.height > partIn.workerCount
    /\ partIn.height % partIn.workerCount > 1
    /\ \E i, j \in DOMAIN partOut : RowCount(partOut[i]) # RowCount(partOut[j])

-----------------------------------------------------------------------------
(* Claims about the coordinate mappers *)

\* C19: for the same view and the same relative position, the CPU 2D path,
\* the worker, the GPU shader and the 3D height map evaluate the same
\* complex-plane point.
C19_SameMapperOnEveryPath ==
    \A r1, r2 \in mapOut : r1[2] = r2[2]

-----------------------------------------------------------------------------
(* Claims about the render path *)

\* a frame of the 2D view with a window size and a 2D context to draw on
Drawable(f) ==
    /\ ~f.is3D
    /\ f.dimensions.width # 0 /\ f.dimensions.height # 0
    /\ f.ctx2d

\* C17: an initWebGPU call that finds the GPU path unavailable (no
\* navigator.gpu, no adapter, no webgpu context, an exception) sets
\* supportsWebGPU to false; a frame is drawn by the GPU path only when a
\* renderer is held and supportsWebGPU is true; every other 2D frame with a
\* window size is drawn by the CPU path, while initWebGPU is in flight too.
C17_GpuFallback ==
    /\ [][\A i \in DOMAIN inits' :
              (/\ inits'[i] \in Unavailable
               /\ i \in DOMAIN inits => inits[i] # inits'[i])
              => supportsWebGPU' = "false"]_vars
    /\ [](\A f \in frames :
              /\ f.path = "gpu" =>
                     (f.webgpuRenderer # 0 /\ f.supportsWebGPU = "true")
              /\ (Drawable(f) /\ f.path # "gpu") => f.path = "cpu")

\* each exit was taken by some call, and 2D frames were drawn by the CPU path
\* before a call settled and after one failed, and by the GPU path
C17_Witness ==
    /\ \E i \in DOMAIN inits : inits[i] \in Unavailable
    /\ \E f \in frames :
           Drawable(f) /\ f.supportsWebGPU = "false" /\ f.path = "cpu"
    /\ \E f \in frames :
           Drawable(f) /\ f.supportsWebGPU = "null" /\ f.path = "cpu"
    /\ \E f \in frames : f.path = "gpu"

-----------------------------------------------------------------------------
(* Claims about the bookmark collection *)

KeptBy(id) == {i \in DOMAIN bookmarks : bookmarks[i].id # id}

\* C14: deleteBookmark(id) removes the bookmark with that id and leaves every
\* other bookmark and their relative order unchanged; when no bookmark has
\* the id, the collection is unchanged.
C14_DeleteRemovesById ==
    [][(mouseEvents' # mouseEvents /\ lastEvent'.type = "delete") =>
          LET id == lastEvent'.id
          IN  /\ \A i \in DOMAIN bookmarks' : bookmarks'[i].id # id
              /\ Len(bookmarks') = Cardinality(KeptBy(id))
              /\ \A i \in KeptBy(id) :
                     bookmarks'[Cardinality({j \in KeptBy(id) : j <= i})] =
                     bookmarks[i]
              /\ (KeptBy(id) = DOMAIN bookmarks => bookmarks' = bookmarks)]_vars

\* the first of three loaded bookmarks was deleted and the other two are left
\* in their order
C14_Witness ==
    /\ lastEvent = Event("delete", Stored(1).id, <<>>)
    /\ bookmarks = <<Partial, Stored(2)>>

\* C15: no two bookmarks of the collection have the same id.
C15_UniqueIds ==
    \A i, j \in DOMAIN bookmarks :
        i # j => bookmarks[i].id # bookmarks[j].id

\* a record with every field of a bookmark
WellFormed(record) == DOMAIN record = DOMAIN Stored(1)

\* the records of a stored text that are JSON and well formed, in order
WellFormedRecords(text) ==
    LET kept == SelectSeq(text, LAMBDA entry :
                              entry.syntaxOk /\ WellFormed(entry.value))
    IN  [i \in DOMAIN kept |-> kept[i].value]

\* C16: loading persisted bookmark data discards a malformed record only: the
\* well-formed records are the collection after the load.
C16_LoadDiscardsOnlyMalformed ==
    lastEvent.type = "mount" => bookmarks = WellFormedRecords(lastEvent.rect)

\* the stored text is a list of well-formed bookmarks
ValidList(text) ==
    \A i \in DOMAIN text : text[i].syntaxOk /\ WellFormed(text[i].value)

\* C30: mounting loses no stored bookmark: when storage holds a valid list S
\* at the mount, also when the mount effects run twice, the collection after
\* the mount's render is S, and after the save effect of that render both the
\* collection and the stored list are S.
C30_MountKeepsStored ==
    /\ []((lastEvent.type = "mount" /\ lastEvent.rect # <<>>
              /\ ValidList(lastEvent.rect))
          => bookmarks = JsonParse(lastEvent.rect).value)
    /\ [][(/\ lastEvent.type = "mount" /\ lastEvent.rect # <<>>
           /\ ValidList(lastEvent.rect)
           /\ lastEvent'.type = "save")
          => /\ bookmarks' = JsonParse(lastEvent.rect).value
             /\ storage' = Item(lastEvent.rect)]_vars

-----------------------------------------------------------------------------
(* Claims about the view-state controller *)

\* the wheel updaters i..j of the log were applied one right after the other
\* for the same cursor pixel
SameRun(i, j) ==
    \A k \in i..j :
        /\ wheelLog[k].mouseX = wheelLog[i].mouseX
        /\ wheelLog[k].mouseY = wheelLog[i].mouseY
        /\ wheelLog[k].dims = wheelLog[i].dims
        /\ k > i => wheelLog[k].before = wheelLog[k - 1].after

\* the complex-plane point of the cursor pixel of a log entry under a view
CursorPoint(e, view) ==
    PixelToComplex(e.mouseX, e.mouseY, e.dims.width, e.dims.height, view)

C10_OneAnimationAtATime ==
    /\ [](Cardinality(loops) <= 1)
    /\ [][(calls' # calls /\ loops # {}) =>
             (loops' = loops /\ lastCall'.outcome = "ignored")]_vars

\* a call for another bookmark was ignored while an animation was half way
C10_Witness ==
    /\ lastCall.outcome = "ignored"
    /\ \E loop \in loops :
           /\ loop.endState # lastCall.bookmark
           /\ loop.ticked > 0
    /\ Cardinality(loops) = 1

-----------------------------------------------------------------------------
(* Claims about the colour mappers *)

\* C9: a pixel whose iteration count equals the cap is black and opaque in
\* the worker (for every cap) and in renderMandelbrot, and has colour
\* (0, 0, 0) and height 0 in the height map.
C9_InSetIsBlack ==
    \A r \in colOut :
        /\ (r[1] = "worker" /\ colIn.iter = colIn.maxIterations) =>
               r[2] = <<0, 0, 0, 255>>
        /\ (r[1] = "cpu" /\ colIn.iter = CpuMaxIter) => r[2] = <<0, 0, 0, 255>>
        /\ (r[1] = "height" /\ colIn.iter = CpuMaxIter) =>
               r[2] = [height |-> RInt(0), color |-> <<0, 0, 0>>]

\* the three render paths shaded a pixel whose iteration count is the cap
C9_Witness ==
    /\ Shaded("worker") /\ Shaded("cpu") /\ Shaded("height")
    /\ colIn.iter = CpuMaxIter
    /\ colIn.maxIterations = CpuMaxIter

\* the colour channels of a shaded pixel or vertex
Channels(r) == IF r[1] = "height" THEN r[2].color ELSE SubSeq(r[2], 1, 3)

\* C28: in renderMandelbrot and in the height map (cap 100), and in the worker
\* under every cap, the colour of a pixel is (0, 0, 0) if and only if its
\* iteration count equals the cap: an escaping point has a channel that is not
\* zero.
C28_BlackIffInSet ==
    \A r \in colOut :
        LET cap == IF r[1] = "worker" THEN colIn.maxIterations ELSE CpuMaxIter
        IN  (Channels(r) = <<0, 0, 0>>) <=> (colIn.iter = cap)

\* the three render paths shaded an escaping point, none of them black, and
\* not all alike
C28_Witness ==
    /\ Shaded("worker") /\ Shaded("cpu") /\ Shaded("height")
    /\ colIn.iter = 45
    /\ colIn.maxIterations = CpuMaxIter
    /\ \A r \in colOut : Channels(r) # <<0, 0, 0>>
    /\ \E r \in colOut, q \in colOut : Channels(r) # Channels(q)

-----------------------------------------------------------------------------
(* Claims about animations beside gestures *)

\* C11: an animation that has started runs to completion: while the frame
\* callbacks keep firing, isAnimating returns to false, and in the state where
\* it does the view is the bookmark of the animation, whatever wheel and pan
\* gestures came between the calls of animate.
C11_AnimationLandsOnBookmark ==
    /\ isAnimating ~> ~isAnimating
    /\ [][(isAnimating /\ ~isAnimating') => viewState' = lastCall.bookmark]_vars

-----------------------------------------------------------------------------
(* Claims about the zoom in floating point *)

\* C12: the zoom of the view state is greater than 0 in every reachable state,
\* after any sequence of wheel zooms by 0.9 and 1.1, bookmark creations and
\* animations to a bookmark from the initial view (a pan leaves the zoom as it
\* is).
C12_ZoomPositive == RLt(RInt(0), floatZoom)

\* C23 as stated: for every (cx, cy) with cx^2 + cy^2 > 4 and every maxIter >=
\* 1, mandelbrot returns exactly 1, so mandelbrot(2, 2, maxIter) is below 5;
\* it returns 0 only when maxIter = 0.
C23_OutsideReturnsOne ==
    \A r \in evalOut :
        /\ (/\ RLt(RInt(4), RAdd(RMul(evalIn.cx, evalIn.cx), RMul(evalIn.cy, evalIn.cy)))
            /\ evalIn.maxIter >= 1) => r[2] = 1
        /\ r[2] = 0 => evalIn.maxIter = 0

\* C23, amended: for every (cx, cy) whose squared norm cx * cx + cy * cy, as
\* the loop computes it in floating point, is greater than 4, and every
\* maxIter >= 1, mandelbrot returns exactly 1, so mandelbrot(2, 2, maxIter) is
\* below 5; it returns 0 only when maxIter = 0.
C23_ComputedOutsideReturnsOne ==
    \A r \in evalOut :
        /\ (/\ RLt(RInt(4), FloatNorm(evalIn.cx, evalIn.cy))
            /\ evalIn.maxIter >= 1) => r[2] = 1
        /\ r[2] = 0 => evalIn.maxIter = 0

\* both copies have run on a point outside the circle of radius 2 and near to
\* it, with a cap greater than 1
C23_Witness ==
    /\ Ran("main") /\ Ran("worker")
    /\ evalIn.maxIter > 1
    /\ evalIn.cx = R(3, 2) /\ evalIn.cy = R(3, 2)
    /\ RLt(RInt(4), FloatNorm(evalIn.cx, evalIn.cy))
    /\ \A r \in evalOut : r[2] = 1

\* v lies between a and b, inclusive
Between(a, b, v) ==
    \/ RLe(a, v) /\ RLe(v, b)
    \/ RLe(b, v) /\ RLe(v, a)

\* C24: on every call of animate the progress is within [0, 1] before easing,
\* whatever the clock reads, so the eased progress is within [0, 1] and the
\* zoom, centerX and centerY it sets lie between the values of the start and
\* of the end snapshot, inclusive.
C24_TickBetweenSnapshots ==
    [][\A loop \in loops : animate(loop) =>
          /\ Between(RInt(0), RInt(1), TickProgress(loop))
          /\ Between(RInt(0), RInt(1), easeInOutQuad(TickProgress(loop)))
          /\ Between(loop.startState.zoom, loop.endState.zoom, TickView(loop).zoom)
          /\ Between(loop.startState.centerX, loop.endState.centerX, TickView(loop).centerX)
          /\ Between(loop.startState.centerY, loop.endState.centerY, TickView(loop).centerY)]_vars

-----------------------------------------------------------------------------
(* Claims about the pointer gestures *)

\* C26: in every state reached by mouse-down (with or without Shift),
\* mouse-move, mouse-up, mouse-leave and view-mode toggles, at most one of
\* isDragging, isSelecting and isRotating is true.
C26_OneGestureMode ==
    /\ ~(isDragging /\ isSelecting)
    /\ ~(isDragging /\ isRotating)
    /\ ~(isSelecting /\ isRotating)

\* the state but the bookkeeping of the handlers, the gesture flags of drag
\* and rotation, and the frames drawn
Content ==
    <<viewState, pendingView, bookmarks, storage, saveDue, isSelecting,
      selectionRect, lastMousePos, isAnimating, is3D>>

\* a step of a handler of the mouse events or of the 3D wheel listener
PointerStep == mouseEvents' # mouseEvents

\* a mouse move while a selection is active in 2D mode changes only the
\* selection rectangle, never the view
SelectionMoveKeepsView ==
    (/\ PointerStep
     /\ lastEvent'.type = "mousemove"
     /\ isSelecting /\ selectionRect # <<>> /\ ~is3D)
    => /\ viewState' = viewState
       /\ pendingView' = pendingView
       /\ bookmarks' = bookmarks
       /\ <<isDragging, isSelecting, isRotating, lastMousePos>>' =
              <<isDragging, isSelecting, isRotating, lastMousePos>>

====
